---- MODULE Spec2Model ----
(***************************************************************************)
(* State-machine model of the OSC relay server (src/streamosc.py).         *)
(*                                                                         *)
(* The server runs under eventlet (eventlet.monkey_patch(), line 3, and    *)
(* async_mode='eventlet', line 84): every Socket.IO handler and the        *)
(* generator loop is a green thread, and control changes hands only where  *)
(* a green thread blocks: time.sleep() in the loop (lines 266, 269) and    *)
(* send_thread.join() in handle_stop_sending (line 541), and               *)
(* send_thread.start() in handle_start_sending (line 483), which returns   *)
(* only once the new thread has begun to run.  Each action below is one    *)
(* such uninterrupted stretch of code.                                     *)
(***************************************************************************)
EXTENDS Integers, Sequences, FiniteSets, TLC

VARIABLES
    API_KEYS,              \* list of accepted keys, fixed at start-up
    connection_tracker,    \* sid -> [connected_at, last_ping]
    connected_clients,     \* set of sids
    sessions,              \* sids whose transport session is open
    registered_receivers,  \* receiver_id -> receiver record
    message_queue,         \* receiver_id -> sequence of messages
    is_sending,            \* generator flag
    send_thread,           \* id of the thread object last stored, 0 = None
    threads,               \* generator threads started and not yet returned
    limbo,                 \* threads of `threads` that have not begun to run
    destinations,
    current_addresses,
    interval_min,
    interval_max,
    start_waiting,         \* start_sending handlers blocked in send_thread.start()
    stop_waiting,          \* stop_sending handlers blocked in send_thread.join()
    now,                   \* time.time() as read for a message timestamp: every publish reads a later one
    clock,                 \* time.time() in whole seconds, as read for connected_at and last_ping
    next_sid,              \* request.sid of the next transport session
    next_receiver_id,      \* index of the next uuid4 drawn
    next_thread_id,        \* index of the next Thread object created
    emitted,               \* events emitted by the last step, in order
    handshake_auth,        \* history: sid -> credential presented at connect
    missed,                \* history: receiver_id -> timestamps published since its owner disconnected
    stop_acked,            \* history: threads alive when an acknowledged stop was issued
    rooms,                 \* pairs <<sid, room>>: the rooms each transport session is in
    relay_client,          \* the OSCRelayClient of osc_relay_client.py and its socket.io wire
    raised,                \* history: the thread whose iteration raised in the last step, 0 = none
    publisher              \* history: the thread whose iteration published in the last step, 0 = none

vars == <<API_KEYS, connection_tracker, connected_clients, sessions, registered_receivers,
          message_queue, is_sending, send_thread, threads, limbo, destinations,
          current_addresses, interval_min, interval_max, start_waiting, stop_waiting, now, clock,
          next_sid, next_receiver_id, next_thread_id, emitted,
          handshake_auth, missed, stop_acked, rooms, relay_client, raised,
          publisher>>

(***************************************************************************)
(* Bounds of the model.                                                    *)
(***************************************************************************)
MaxConnections == 1
MaxReceivers == 1
MaxThreads == 1
MaxTime == 1
MaxChoice == 1
MaxClock == 1
MaxLoops == 3
MaxLoopTime == 3

MaxBacklogTime == 101

MaxSweepClock == 35

MaxDirectory == 2

MaxSessions == 2

(***************************************************************************)
(* Program constants.                                                      *)
(***************************************************************************)
MAX_QUEUE_SIZE == 100

\* Seconds without a ping after which the sweep drops a connection.
PING_TIMEOUT == 30

\* Seconds between two sweeps.
CHECK_INTERVAL == 5

\* Intervals are kept in milliseconds (0.5 s and 3.0 s in the source).
DEFAULT_INTERVAL_MIN == 500
DEFAULT_INTERVAL_MAX == 3000

NUM_OSC_ADDRESSES == 14

\* "/mass/tile1" .. "/mass/tile14"
OSC_ADDRESSES == [i \in 1..NUM_OSC_ADDRESSES |-> <<"/mass/tile", i>>]

DEFAULT_DESTINATIONS == << <<"127.0.0.1", 57120>> >>

\* Strings that are parsed are sequences of characters.
DEFAULT_KEY == <<"default-key-for-development">>

\* data.get('api_key') of a request that carries no api_key (None).
NoKey == <<"None">>

(***************************************************************************)
(* Generic helpers.                                                        *)
(***************************************************************************)
Range(s) == {s[i] : i \in DOMAIN s}

Restrict(f, S) == [x \in S |-> f[x]]

\* All sequences over S of length at most n.
SeqsUpTo(S, n) == UNION {[1..k -> S] : k \in 0..n}

(***************************************************************************)
(* API_KEYS = os.environ.get('API_KEYS', '').split(',')                    *)
(***************************************************************************)
RECURSIVE SplitFrom(_, _, _)
\* str.split(','): cur is the piece being read, i the next character.
SplitFrom(s, i, cur) ==
    IF i > Len(s) THEN <<cur>>
    ELSE IF s[i] = "," THEN <<cur>> \o SplitFrom(s, i + 1, <<>>)
    ELSE SplitFrom(s, i + 1, Append(cur, s[i]))

Split(s) == SplitFrom(s, 1, <<>>)

LoadApiKeys(env) ==
    LET keys == Split(env)
    IN  IF keys = <<>> \/ keys[1] = <<>> THEN <<DEFAULT_KEY>> ELSE keys

\* Mutation: the membership test is left out.
AuthorizedNonEmpty(api_key) ==
    /\ api_key # NoKey
    /\ api_key # <<>>

\* `not api_key or api_key not in API_KEYS` is the rejection test of
\* start_sending, stop_sending, unregister_receiver and send_value.
Authorized(api_key) ==
    /\ api_key # NoKey
    /\ api_key # <<>>
    /\ api_key \in Range(API_KEYS)

\* register_receiver and get_status read data.get('api_key', '') and reject
\* only on `api_key not in API_KEYS`.
KeyOrEmpty(api_key) == IF api_key = NoKey THEN <<>> ELSE api_key

AuthorizedLoose(api_key) == KeyOrEmpty(api_key) \in Range(API_KEYS)

(***************************************************************************)
(* Events and messages.                                                    *)
(***************************************************************************)
\* In raised, the exception of the last step was raised in a request handler
\* and not in a loop thread (threads are numbered from 1).
HANDLER == -1

\* Room 0 is every connection (broadcast=True, or socketio.emit without room).
BROADCAST == 0

\* status is the 'status' of a status_update or the 'error' of a failure event.
Event(ev, to, status, rid, msg) ==
    [event |-> ev, to |-> to, status |-> status, text |-> "", receiver_id |-> rid, msg |-> msg]

\* message_data of lines 243-247 and 679-683.
Message(address, value, timestamp) ==
    [address |-> address, value |-> value, timestamp |-> timestamp]

\* The receiver ids drawn so far, in the order they were drawn; a dict keeps
\* insertion order, so this is the order of registered_receivers.items().
ReceiverIds == [i \in 1..(next_receiver_id - 1) |-> i]

IsActive(receiver_info) == receiver_info.active

(***************************************************************************)
(* The fan-out loop over registered_receivers.items() shared by the        *)
(* generator loop (lines 251-263) and handle_send_value (lines 689-697).   *)
(***************************************************************************)
\* message_queue[receiver_id].append(m); pop(0) when longer than the bound.
Enqueue(q, m) ==
    LET appended == Append(q, m)
    IN  IF Len(appended) > MAX_QUEUE_SIZE THEN Tail(appended) ELSE appended

\* Mutation: the branch test is inverted.
RelayTargetsInverted(receivers) ==
    SelectSeq(ReceiverIds, LAMBDA r : r \in DOMAIN receivers /\ ~IsActive(receivers[r]))

\* The receivers that take the `if receiver_info.get('active', False)` branch.
RelayTargets(receivers) ==
    SelectSeq(ReceiverIds, LAMBDA r : r \in DOMAIN receivers /\ IsActive(receivers[r]))

\* The receivers that take the else branch.
QueueTargets(receivers) ==
    {r \in DOMAIN receivers : r \notin Range(RelayTargets(receivers))}

\* Mutation: every active receiver is sent the message twice.
RelayEventsTwice(receivers, m) ==
    LET targets == RelayTargets(receivers) \o RelayTargets(receivers)
    IN  [i \in DOMAIN targets |->
            Event("relay_message", receivers[targets[i]].socket_id, "", targets[i], <<m>>)]

\* The relay_message events of one fan-out, in iteration order.
RelayEvents(receivers, m) ==
    LET targets == RelayTargets(receivers)
    IN  [i \in DOMAIN targets |->
            Event("relay_message", receivers[targets[i]].socket_id, "", targets[i], <<m>>)]

\* Mutation: every receiver's message is queued and the queue is never trimmed.
QueuesAfterUnbounded(receivers, queues, m) ==
    [r \in DOMAIN queues \cup DOMAIN receivers |->
        IF r \in DOMAIN receivers
        THEN Append(IF r \in DOMAIN queues THEN queues[r] ELSE <<>>, m)
        ELSE queues[r]]

\* message_queue after one fan-out.
QueuesAfter(receivers, queues, m) ==
    [r \in DOMAIN queues \cup QueueTargets(receivers) |->
        IF r \in QueueTargets(receivers)
        THEN Enqueue(IF r \in DOMAIN queues THEN queues[r] ELSE <<>>, m)
        ELSE queues[r]]

\* Mutation: the message is broadcast and the fan-out loop is left out.
PublishEventsBroadcastOnly(m) == <<Event("osc_message", BROADCAST, "", 0, <<m>>)>>

\* socketio.emit('osc_message', ...) followed by the fan-out.
PublishEvents(m) ==
    <<Event("osc_message", BROADCAST, "", 0, <<m>>)>> \o RelayEvents(registered_receivers, m)

\* History: every receiver whose owner has disconnected misses the message.
MissedAfter(m) == [r \in DOMAIN missed |-> Append(missed[r], m.timestamp)]

Publish(m) ==
    /\ emitted' = PublishEvents(m)
    /\ message_queue' = QueuesAfter(registered_receivers, message_queue, m)
    /\ now' = now + 1
    /\ missed' = MissedAfter(m)

(***************************************************************************)
(* The emit and the fan-out loop of handle_send_value, lines 685-697,      *)
(* which the handler has in its own copy.                                  *)
(***************************************************************************)
\* Mutation: send_value does not relay.
SendValueRelayEventsNone(receivers, m) == <<>>

\* The relay_message events of lines 689-691, in iteration order.
SendValueRelayEvents(receivers, m) ==
    LET active == SelectSeq(ReceiverIds,
                            LAMBDA r : r \in DOMAIN receivers /\ receivers[r].active)
    IN  [i \in DOMAIN active |->
            Event("relay_message", receivers[active[i]].socket_id, "", active[i], <<m>>)]

\* Mutation: send_value appends the message to the backlog of every receiver.
SendValueQueuesAfterAll(receivers, queues, m) ==
    [r \in DOMAIN queues \cup DOMAIN receivers |->
        IF r \in DOMAIN receivers
        THEN Append(IF r \in DOMAIN queues THEN queues[r] ELSE <<>>, m)
        ELSE queues[r]]

\* message_queue after lines 692-697.
SendValueQueuesAfter(receivers, queues, m) ==
    LET inactive == {r \in DOMAIN receivers : ~receivers[r].active}
    IN  [r \in DOMAIN queues \cup inactive |->
            IF r \in inactive
            THEN LET appended == Append(IF r \in DOMAIN queues THEN queues[r] ELSE <<>>, m)
                 IN  IF Len(appended) > MAX_QUEUE_SIZE THEN Tail(appended) ELSE appended
            ELSE queues[r]]

\* socketio.emit('osc_message', ...) of line 686 followed by the fan-out.
PublishValueEvents(m) ==
    <<Event("osc_message", BROADCAST, "", 0, <<m>>)>>
        \o SendValueRelayEvents(registered_receivers, m)

PublishValue(m) ==
    /\ emitted' = PublishValueEvents(m)
    /\ message_queue' = SendValueQueuesAfter(registered_receivers, message_queue, m)
    /\ now' = now + 1
    /\ missed' = MissedAfter(m)

(***************************************************************************)
(* get_receivers_list(), lines 312-322: the snapshot that /api/receivers   *)
(* and unregister_receiver send.  No entry has a 'created_at', so the      *)
(* default 0 is reported.                                                  *)
(***************************************************************************)
get_receivers_list ==
    LET ids == SelectSeq(ReceiverIds, LAMBDA r : r \in DOMAIN registered_receivers)
    IN  [i \in DOMAIN ids |->
            [id |-> ids[i],
             name |-> registered_receivers[ids[i]].name,
             active |-> registered_receivers[ids[i]].active,
             created_at |-> 0]]

(***************************************************************************)
(* Initial state: the module-level globals of lines 166-185.               *)
(***************************************************************************)
EnvAlphabet == {"k", ","}

MaxEnvLen == 2

EnvStrings == SeqsUpTo(EnvAlphabet, MaxEnvLen)

\* Credentials a client may present.
Credentials == {NoKey, <<>>, <<"k">>, DEFAULT_KEY}

EmptyMap == [x \in {} |-> 0]

\* An OSCRelayClient before start().  sid is the session of self.sio, 0 when it
\* is not connected; receiver_id 0 is None; inbox holds the events the server
\* has sent and the client has not handled, outbox the events the client has
\* emitted and the server has not handled; the stack of a thread holds the
\* positions of its calls, the innermost last.
NotStarted ==
    [running |-> FALSE, was_manually_disconnected |-> FALSE, is_connecting |-> FALSE,
     reconnect_attempts |-> 0, sid |-> 0, receiver_id |-> 0, inbox |-> <<>>, outbox |-> <<>>,
     stack |-> [main |-> <<>>, events |-> <<>>]]

InitWith(envs) ==
    /\ API_KEYS \in {LoadApiKeys(env) : env \in envs}
    /\ connection_tracker = EmptyMap
    /\ connected_clients = {}
    /\ sessions = {}
    /\ rooms = {}
    /\ relay_client = NotStarted
    /\ registered_receivers = EmptyMap
    /\ message_queue = EmptyMap
    /\ is_sending = FALSE
    /\ send_thread = 0
    /\ threads = {}
    /\ limbo = {}
    /\ destinations = DEFAULT_DESTINATIONS
    /\ current_addresses = OSC_ADDRESSES
    /\ interval_min = DEFAULT_INTERVAL_MIN
    /\ interval_max = DEFAULT_INTERVAL_MAX
    /\ start_waiting = {}
    /\ stop_waiting = {}
    /\ now = 0
    /\ clock = 0
    /\ next_sid = 1
    /\ next_receiver_id = 1
    /\ next_thread_id = 1
    /\ emitted = <<>>
    /\ handshake_auth = EmptyMap
    /\ missed = EmptyMap
    /\ stop_acked = {}
    /\ raised = 0
    /\ publisher = 0

Init == InitWith(EnvStrings)

generator_vars == <<is_sending, send_thread, threads, limbo, destinations,
                    current_addresses, interval_min, interval_max>>

\* The handlers that are blocked half-way.
waiting_vars == <<start_waiting, stop_waiting>>

history_vars == <<handshake_auth, missed, stop_acked>>

receiver_vars == <<registered_receivers, message_queue>>

connection_vars == <<connection_tracker, connected_clients, sessions>>

id_vars == <<next_sid, next_receiver_id, next_thread_id>>

time_vars == <<now, clock>>

Sids == DOMAIN handshake_auth

\* The transport sessions that are open: only these deliver requests.  A session
\* is opened by connect and closed by disconnect; the sweep of check_connections
\* drops a connection from the registry and leaves its session open.
Live(client_id) == client_id \in sessions

\* The name of the room that a session is put in when it is opened, which is its
\* sid: `room=client_id` and `room=receiver_info['socket_id']` address it.
RoomOfSid(sid) == <<"sid", sid>>

\* The name of the room of a receiver, which is its receiver_id (line 638).
RoomOfReceiver(receiver_id) == <<"receiver", receiver_id>>

\* The sessions that an event emitted to a room is delivered to.
Members(room) == {m[1] : m \in {x \in rooms : x[2] = room}}

StatusEvent(status, text, to) ==
    [event |-> "status_update", to |-> to, status |-> status, text |-> text,
     receiver_id |-> 0, msg |-> <<>>]

(***************************************************************************)
(* @socketio.on('connect'), lines 327-356.  The handler takes no argument: *)
(* the auth data of the handshake is not looked at.                        *)
(***************************************************************************)
handle_connect(auth) ==
    LET client_id == next_sid
    IN  /\ connection_tracker' =
              [s \in DOMAIN connection_tracker \cup {client_id} |->
                  IF s = client_id
                  THEN [connected_at |-> clock, last_ping |-> clock]
                  ELSE connection_tracker[s]]
        /\ connected_clients' = connected_clients \cup {client_id}
        /\ sessions' = sessions \cup {client_id}
        /\ rooms' = rooms \cup {<<client_id, RoomOfSid(client_id)>>}
        /\ emitted' = <<StatusEvent("connected", "Connected to server", client_id),
                        Event("client_list_update", BROADCAST, "", 0, <<>>)>>
        /\ next_sid' = next_sid + 1
        /\ handshake_auth' =
              [s \in DOMAIN handshake_auth \cup {client_id} |->
                  IF s = client_id THEN auth ELSE handshake_auth[s]]
        /\ publisher' = 0
        /\ raised' = 0
        /\ UNCHANGED <<API_KEYS, receiver_vars, generator_vars, waiting_vars, time_vars,
                       next_receiver_id, next_thread_id, missed, stop_acked>>

(***************************************************************************)
(* @socketio.on('disconnect'), lines 358-375.                              *)
(***************************************************************************)
\* The receivers whose 'client_id' is the given connection.
OwnedBy(receivers, client_id) ==
    {r \in DOMAIN receivers : receivers[r].client_id = client_id}

\* Mutation: a disconnect leaves the receivers of the connection.
ReceiversAfterDisconnectKept(receivers, client_id) == receivers

\* del registered_receivers[receiver_id] for every owned receiver (370-373).
ReceiversAfterDisconnect(receivers, client_id) ==
    Restrict(receivers, DOMAIN receivers \ OwnedBy(receivers, client_id))

\* `if client_id in connection_tracker: del connection_tracker[client_id]`.
TrackerAfterDisconnect(tracker, client_id) == Restrict(tracker, DOMAIN tracker \ {client_id})

\* Mutation: a disconnect leaves the connection in connected_clients.
ClientsAfterDisconnectKept(clients, client_id) == clients

\* connected_clients.discard(client_id).
ClientsAfterDisconnect(clients, client_id) == clients \ {client_id}

handle_disconnect(client_id) ==
    /\ Live(client_id)
    /\ connection_tracker' = TrackerAfterDisconnect(connection_tracker, client_id)
    /\ connected_clients' = ClientsAfterDisconnect(connected_clients, client_id)
    /\ sessions' = sessions \ {client_id}
    /\ rooms' = {m \in rooms : m[1] # client_id}
    /\ registered_receivers' = ReceiversAfterDisconnect(registered_receivers, client_id)
    /\ emitted' = <<Event("client_list_update", BROADCAST, "", 0, <<>>)>>
    /\ missed' = [r \in DOMAIN missed \cup OwnedBy(registered_receivers, client_id) |->
                    IF r \in DOMAIN missed THEN missed[r] ELSE <<>>]
    /\ publisher' = 0
    /\ raised' = 0
    /\ UNCHANGED <<API_KEYS, message_queue, generator_vars, waiting_vars, time_vars, id_vars,
                   handshake_auth, stop_acked>>

(***************************************************************************)
(* @socketio.on('ping'), lines 377-382.                                    *)
(***************************************************************************)
\* Mutation: a ping of a connection that is not tracked makes an entry for it.
TrackerAfterPingOfAny(tracker, client_id, current_time) ==
    [s \in DOMAIN tracker \cup {client_id} |->
        IF s = client_id
        THEN [connected_at |-> current_time, last_ping |-> current_time]
        ELSE tracker[s]]

\* `if client_id in connection_tracker:` then the assignment of last_ping.
TrackerAfterPing(tracker, client_id, current_time) ==
    [s \in DOMAIN tracker |->
        IF s = client_id
        THEN [tracker[s] EXCEPT !.last_ping = current_time]
        ELSE tracker[s]]

handle_ping(client_id) ==
    /\ Live(client_id)
    /\ connection_tracker' = TrackerAfterPing(connection_tracker, client_id, clock)
    /\ emitted' = <<>>
    /\ publisher' = 0
    /\ raised' = 0
    /\ UNCHANGED <<API_KEYS, connected_clients, sessions, rooms, receiver_vars, generator_vars,
                   waiting_vars, time_vars, id_vars, history_vars>>

(***************************************************************************)
(* check_connections(), lines 717-750, called every 5 s by                 *)
(* connection_check_loop (lines 752-756).                                  *)
(***************************************************************************)
\* Mutation: a connection is stale from the threshold on.
StaleClientsAtThreshold(tracker, current_time) ==
    {c \in DOMAIN tracker : current_time - tracker[c].last_ping >= PING_TIMEOUT}

\* `current_time - info['last_ping'] > 30` (line 725).
StaleClients(tracker, current_time) ==
    {c \in DOMAIN tracker : current_time - tracker[c].last_ping > PING_TIMEOUT}

\* Mutation: the sweep leaves the receivers of a stale client.
OwnedByNone(receivers, clients) == {}

\* The receivers of lines 734-737: those owned by a stale client.
OwnedByAny(receivers, clients) ==
    {r \in DOMAIN receivers : receivers[r].client_id \in clients}

check_connections ==
    LET stale_clients == StaleClients(connection_tracker, clock)
    IN  /\ connected_clients' = connected_clients \ stale_clients
        /\ connection_tracker' =
              Restrict(connection_tracker, DOMAIN connection_tracker \ stale_clients)
        /\ registered_receivers' =
              Restrict(registered_receivers,
                       DOMAIN registered_receivers \ OwnedByAny(registered_receivers, stale_clients))
        /\ emitted' = IF stale_clients # {}
                      THEN <<Event("client_list_update", BROADCAST, "", 0, <<>>),
                             Event("receiver_list_update", BROADCAST, "", 0, <<>>)>>
                      ELSE <<>>
        /\ missed' = [r \in DOMAIN missed \cup OwnedByAny(registered_receivers, stale_clients) |->
                        IF r \in DOMAIN missed THEN missed[r] ELSE <<>>]
        /\ publisher' = 0
        /\ raised' = 0
        /\ UNCHANGED <<API_KEYS, sessions, rooms, message_queue, generator_vars, waiting_vars,
                       time_vars, id_vars, handshake_auth, stop_acked>>

(***************************************************************************)
(* @socketio.on('get_status'), lines 384-411.                              *)
(***************************************************************************)
handle_get_status(client_id, api_key) ==
    /\ Live(client_id)
    /\ emitted' = IF ~AuthorizedLoose(api_key)
                  THEN <<StatusEvent("error", "Invalid API key", client_id)>>
                  ELSE <<StatusEvent("connected", "Connected to server", client_id)>>
    /\ publisher' = 0
    /\ raised' = 0
    /\ UNCHANGED <<API_KEYS, rooms, connection_vars, receiver_vars, generator_vars, waiting_vars,
                   time_vars, id_vars, history_vars>>

(***************************************************************************)
(* @socketio.on('register_receiver'), lines 551-612.                       *)
(***************************************************************************)
\* Mutation: the receiver is stored as inactive.
ReceiverInfoInactive(name, client_id, api_key, connected_at) ==
    [name |-> name, client_id |-> client_id, api_key |-> api_key,
     connected_at |-> connected_at, active |-> FALSE, socket_id |-> client_id]

\* The entry of lines 577-584.
ReceiverInfo(name, client_id, api_key, connected_at) ==
    [name |-> name, client_id |-> client_id, api_key |-> api_key,
     connected_at |-> connected_at, active |-> TRUE, socket_id |-> client_id]

\* Mutation: the new receiver is also sent a message that was published
\* before it registered.
RegisteredEventsWithBacklog(client_id, receiver_id) ==
    <<Event("registration_confirmed", client_id, "", receiver_id, <<>>),
      Event("relay_message", client_id, "", receiver_id, <<Message(OSC_ADDRESSES[1], 1, 0)>>),
      StatusEvent("connected", "Connected to server", BROADCAST),
      Event("receiver_list_update", BROADCAST, "", 0, <<>>)>>

\* The three emits of lines 588-612.
RegisteredEvents(client_id, receiver_id) ==
    <<Event("registration_confirmed", client_id, "", receiver_id, <<>>),
      StatusEvent("connected", "Connected to server", BROADCAST),
      Event("receiver_list_update", BROADCAST, "", 0, <<>>)>>

\* Mutation: the refusal is not sent.
ConnectionLostSilent(client_id) == <<>>

\* The refusal of lines 568-571.
ConnectionLost(client_id) ==
    <<Event("registration_failed", client_id, "Connection lost", 0, <<>>)>>

handle_register_receiver(client_id, api_key, name) ==
    /\ Live(client_id)
    /\ IF ~AuthorizedLoose(api_key)
       THEN /\ emitted' = <<Event("registration_failed", client_id, "Invalid API key", 0, <<>>)>>
            /\ UNCHANGED <<registered_receivers, next_receiver_id>>
       ELSE IF client_id \notin DOMAIN connection_tracker
       THEN /\ emitted' = ConnectionLost(client_id)
            /\ UNCHANGED <<registered_receivers, next_receiver_id>>
       ELSE LET receiver_id == next_receiver_id
            IN  /\ registered_receivers' =
                      [r \in DOMAIN registered_receivers \cup {receiver_id} |->
                          IF r = receiver_id
                          THEN ReceiverInfo(name, client_id, KeyOrEmpty(api_key),
                                            connection_tracker[client_id].connected_at)
                          ELSE registered_receivers[r]]
                /\ next_receiver_id' = next_receiver_id + 1
                /\ emitted' = RegisteredEvents(client_id, receiver_id)
    /\ publisher' = 0
    /\ raised' = 0
    /\ UNCHANGED <<API_KEYS, rooms, connection_vars, message_queue, generator_vars, waiting_vars,
                   time_vars, next_sid, next_thread_id, history_vars>>

(***************************************************************************)
(* @socketio.on('unregister_receiver'), lines 614-654.                     *)
(***************************************************************************)
\* Mutation: the receiver id is not looked up.
KnownReceiverAlways(receiver_id) == TRUE

\* `not receiver_id or receiver_id not in registered_receivers` (lines 451 and
\* 628) is the rejection test; 0 is a request without receiver id.
KnownReceiver(receiver_id) ==
    /\ receiver_id # 0
    /\ receiver_id \in DOMAIN registered_receivers

\* Mutation: every receiver of the same name is deleted.
ReceiversAfterUnregisterByName(receivers, receiver_id) ==
    Restrict(receivers, {r \in DOMAIN receivers : receivers[r].name # receivers[receiver_id].name})

\* del registered_receivers[receiver_id] (line 635).
ReceiversAfterUnregister(receivers, receiver_id) ==
    Restrict(receivers, DOMAIN receivers \ {receiver_id})

handle_unregister_receiver(client_id, api_key, receiver_id) ==
    /\ Live(client_id)
    /\ IF ~Authorized(api_key)
       THEN /\ emitted' = <<Event("unregistration_failed", client_id, "Unauthorized", 0, <<>>)>>
            /\ UNCHANGED <<registered_receivers, rooms>>
       ELSE IF ~KnownReceiver(receiver_id)
       THEN /\ emitted' = <<Event("unregistration_failed", client_id, "Invalid receiver ID", 0, <<>>)>>
            /\ UNCHANGED <<registered_receivers, rooms>>
       ELSE /\ registered_receivers' = ReceiversAfterUnregister(registered_receivers, receiver_id)
            /\ rooms' = rooms \ {<<client_id, RoomOfReceiver(receiver_id)>>}
            /\ emitted' = <<Event("receiver_list_updated", BROADCAST, "", 0, <<>>),
                            Event("unregistration_confirmed", client_id, "", 0, <<>>)>>
    /\ publisher' = 0
    /\ raised' = 0
    /\ UNCHANGED <<API_KEYS, connection_vars, message_queue, generator_vars, waiting_vars,
                   time_vars, id_vars, history_vars>>

(***************************************************************************)
(* @socketio.on('join'), lines 413-431.  The room is any name the request  *)
(* gives, <<>> being a request without one; no credential is looked at.    *)
(***************************************************************************)
handle_join(client_id, room) ==
    /\ Live(client_id)
    /\ IF room # <<>>
       THEN /\ rooms' = rooms \cup {<<client_id, room>>}
            /\ emitted' = <<StatusEvent("joined", "Joined room", client_id)>>
       ELSE /\ emitted' = <<>>
            /\ UNCHANGED rooms
    /\ publisher' = 0
    /\ raised' = 0
    /\ UNCHANGED <<API_KEYS, connection_vars, receiver_vars, generator_vars, waiting_vars,
                   time_vars, id_vars, history_vars>>

(***************************************************************************)
(* @socketio.on('start_sending'), lines 433-519.  A request field that is  *)
(* absent is the empty sequence, and one that is given is the one-element  *)
(* sequence of its value: a list for destinations and addresses, and for   *)
(* an interval <<n>> for the number n and <<>> for null.                   *)
(* Thread.start() (line 483) waits until the new thread has begun to run,  *)
(* so the handler resumes in handle_start_sending_started.                 *)
(***************************************************************************)
\* Mutation: a list that is given replaces the old one also when it is empty.
OverrideWithEmpty(old, new) == IF new # <<>> THEN new[1] ELSE old

\* data.get('destinations', []), then `if new_destinations:` (lines 463, 468):
\* an empty list is falsy and keeps the old one.
Override(old, new) ==
    LET value == IF new = <<>> THEN <<>> ELSE new[1]
    IN  IF value # <<>> THEN value ELSE old

\* Mutation: an addresses list that is given is taken, also when it is empty.
OverrideAddressesWithEmpty(old, new) == IF new # <<>> THEN new[1] ELSE old

\* `if new_addresses: current_addresses = new_addresses` (lines 470-472).
OverrideAddresses(old, new) == Override(old, new)

\* data.get('interval_min', interval_min), then `is not None` and float()
\* (lines 465, 474-475); float() keeps the value of a number.
OverrideInterval(old, new) ==
    LET value == IF new = <<>> THEN <<old>> ELSE new[1]
    IN  IF value # <<>> THEN value[1] ELSE old

\* Mutation: the test of is_sending is left out.
StartsLoopAlways(sending) == TRUE

\* `if not is_sending:` (line 460).
StartsLoop(sending) == ~sending

\* A value that float() does not take: a string that is not a number.
NotANumber == <<"str", "abc">>

\* float(new_interval_min) of line 475 returns: the field is absent (the default
\* is the current number), null (not converted) or a number.
Converts(new) == new = <<>> \/ Len(new[1]) <= 1

\* interval_min when the handler is left by the exception of float().
IntervalMinAtException(old, new_min) ==
    IF Converts(new_min) THEN OverrideInterval(old, new_min) ELSE old

handle_start_sending(client_id, api_key, receiver_id, new_dests, new_addrs, new_min, new_max) ==
    /\ Live(client_id)
    /\ IF ~Authorized(api_key)
       THEN /\ emitted' = <<StatusEvent("error", "Unauthorized", client_id)>>
            /\ UNCHANGED <<generator_vars, next_thread_id, start_waiting>>
       ELSE IF ~KnownReceiver(receiver_id)
       THEN /\ emitted' = <<StatusEvent("error", "Invalid receiver ID", client_id)>>
            /\ UNCHANGED <<generator_vars, next_thread_id, start_waiting>>
       ELSE IF StartsLoop(is_sending) /\ ~(Converts(new_min) /\ Converts(new_max))
       THEN /\ destinations' = Override(destinations, new_dests)
            /\ current_addresses' = OverrideAddresses(current_addresses, new_addrs)
            /\ interval_min' = IntervalMinAtException(interval_min, new_min)
            /\ emitted' = <<>>
            /\ UNCHANGED <<interval_max, is_sending, send_thread, threads, limbo,
                           next_thread_id, start_waiting>>
       ELSE IF StartsLoop(is_sending)
       THEN /\ destinations' = Override(destinations, new_dests)
            /\ current_addresses' = OverrideAddresses(current_addresses, new_addrs)
            /\ interval_min' = OverrideInterval(interval_min, new_min)
            /\ interval_max' = OverrideInterval(interval_max, new_max)
            /\ is_sending' = TRUE
            /\ send_thread' = next_thread_id
            /\ threads' = threads \cup {next_thread_id}
            /\ limbo' = limbo \cup {next_thread_id}
            /\ next_thread_id' = next_thread_id + 1
            /\ start_waiting' = start_waiting \cup
                  {[client_id |-> client_id, thread |-> next_thread_id]}
            /\ emitted' = <<>>
       ELSE /\ emitted' = <<StatusEvent("info", "OSC message sending already in progress", client_id)>>
            /\ UNCHANGED <<generator_vars, next_thread_id, start_waiting>>
    /\ publisher' = 0
    /\ raised' = IF /\ Authorized(api_key)
                    /\ KnownReceiver(receiver_id)
                    /\ StartsLoop(is_sending)
                    /\ ~(Converts(new_min) /\ Converts(new_max))
                 THEN HANDLER
                 ELSE 0
    /\ UNCHANGED <<API_KEYS, rooms, connection_vars, receiver_vars, stop_waiting, time_vars, next_sid,
                   next_receiver_id, history_vars>>

\* Mutation: the broadcast of lines 487-498 is left out.
StartedEventsToRequesterOnly(client_id) ==
    <<StatusEvent("started", "OSC message sending started", client_id)>>

\* The two status updates of lines 487-512.
StartedEvents(client_id) ==
    <<StatusEvent("started", "OSC message sending started", BROADCAST),
      StatusEvent("started", "OSC message sending started", client_id)>>

\* start() returns: lines 484-512.
handle_start_sending_started(w) ==
    /\ w \in start_waiting
    /\ w.thread \notin limbo
    /\ start_waiting' = start_waiting \ {w}
    /\ emitted' = StartedEvents(w.client_id)
    /\ publisher' = 0
    /\ raised' = 0
    /\ UNCHANGED <<API_KEYS, rooms, connection_vars, receiver_vars, generator_vars, stop_waiting,
                   time_vars, id_vars, history_vars>>

(***************************************************************************)
(* @socketio.on('stop_sending'), lines 521-549.  The handler blocks in     *)
(* send_thread.join() (line 541) until that thread has returned; other     *)
(* green threads run meanwhile.                                            *)
(***************************************************************************)
\* The outcome of `if send_thread: send_thread.join()` (lines 540-541):
\* join() of a thread that has not begun to run raises RuntimeError, join()
\* of a running thread waits, and there is nothing to wait for otherwise.
JoinOutcome ==
    IF send_thread # 0 /\ send_thread \in limbo THEN "raises"
    ELSE IF send_thread # 0 /\ send_thread \in threads THEN "waits"
    ELSE "returns"

handle_stop_sending(client_id, api_key) ==
    /\ Live(client_id)
    /\ IF ~Authorized(api_key)
       THEN /\ emitted' = <<StatusEvent("error", "Unauthorized", client_id)>>
            /\ UNCHANGED <<is_sending, stop_waiting, stop_acked>>
       ELSE IF is_sending
       THEN /\ is_sending' = FALSE
            /\ IF JoinOutcome = "waits"
               THEN /\ stop_waiting' = stop_waiting \cup
                          {[client_id |-> client_id, thread |-> send_thread,
                            running |-> threads \ limbo]}
                    /\ emitted' = <<>>
                    /\ UNCHANGED stop_acked
               ELSE IF JoinOutcome = "raises"
               THEN /\ emitted' = <<>>
                    /\ UNCHANGED <<stop_waiting, stop_acked>>
               ELSE /\ emitted' = <<StatusEvent("stopped", "OSC message sending stopped", BROADCAST)>>
                    /\ stop_acked' = stop_acked \cup (threads \ limbo)
                    /\ UNCHANGED stop_waiting
       ELSE /\ emitted' = <<>>
            /\ UNCHANGED <<is_sending, stop_waiting, stop_acked>>
    /\ publisher' = 0
    /\ raised' = 0
    /\ UNCHANGED <<API_KEYS, rooms, connection_vars, receiver_vars, send_thread, threads, limbo,
                   destinations, current_addresses, interval_min, interval_max,
                   start_waiting, time_vars, id_vars, handshake_auth, missed>>

\* join() returns: lines 542-547.
handle_stop_sending_joined(w) ==
    /\ w \in stop_waiting
    /\ w.thread \notin threads
    /\ stop_waiting' = stop_waiting \ {w}
    /\ emitted' = <<StatusEvent("stopped", "OSC message sending stopped", BROADCAST)>>
    /\ stop_acked' = stop_acked \cup w.running
    /\ publisher' = 0
    /\ raised' = 0
    /\ UNCHANGED <<API_KEYS, rooms, connection_vars, receiver_vars, generator_vars, start_waiting,
                   time_vars, id_vars, handshake_auth, missed>>

(***************************************************************************)
(* send_random_osc_messages, lines 224-269: one wake-up of a loop thread.  *)
(* It evaluates `while is_sending` and either returns or runs one          *)
(* iteration up to the next time.sleep().  choice is the index that        *)
(* random.choice(current_addresses) draws; sent tells whether every         *)
(* client.send_message() of lines 237-238 returned, or one of them raised.  *)
(***************************************************************************)
\* Mutation: no try/except around the iteration, the exception ends the thread.
AfterExceptionExits(running, t) == running \ {t}

\* `except Exception` (lines 267-269): the error is logged, the thread sleeps
\* one second and evaluates `while is_sending` again.
AfterException(running, t) == running

send_random_osc_messages(t, choice, sent) ==
    /\ t \in threads
    /\ limbo' = limbo \ {t}
    /\ IF is_sending /\ sent
       THEN /\ choice \in DOMAIN current_addresses
            /\ Publish(Message(current_addresses[choice], 1, now))
            /\ publisher' = t
            /\ raised' = 0
            /\ UNCHANGED threads
       ELSE IF is_sending
       THEN /\ threads' = AfterException(threads, t)
            /\ emitted' = <<>>
            /\ publisher' = 0
            /\ raised' = t
            /\ UNCHANGED <<message_queue, now, missed>>
       ELSE /\ threads' = threads \ {t}
            /\ emitted' = <<>>
            /\ publisher' = 0
            /\ raised' = 0
            /\ UNCHANGED <<message_queue, now, missed>>
    /\ UNCHANGED <<API_KEYS, rooms, connection_vars, registered_receivers, is_sending, send_thread,
                   destinations, current_addresses, interval_min, interval_max,
                   waiting_vars, clock, id_vars, handshake_auth, stop_acked>>

(***************************************************************************)
(* @socketio.on('send_value'), lines 656-697.  sent tells whether every    *)
(* client.send_message() of lines 675-676 returned; when one raises, the   *)
(* exception leaves the handler, which has emitted nothing yet.            *)
(***************************************************************************)
handle_send_value(client_id, api_key, address, value, sent) ==
    /\ Live(client_id)
    /\ IF ~Authorized(api_key)
       THEN /\ emitted' = <<Event("send_failed", client_id, "Unauthorized", 0, <<>>)>>
            /\ raised' = 0
            /\ UNCHANGED <<message_queue, now, missed>>
       ELSE IF ~sent
       THEN /\ emitted' = <<>>
            /\ raised' = HANDLER
            /\ UNCHANGED <<message_queue, now, missed>>
       ELSE /\ PublishValue(Message(address, value, now))
            /\ raised' = 0
    /\ publisher' = 0
    /\ UNCHANGED <<API_KEYS, rooms, connection_vars, registered_receivers, generator_vars,
                   waiting_vars, clock, id_vars, handshake_auth, stop_acked>>

(***************************************************************************)
(* GET /api/status and GET /api/receivers, lines 288-310, behind           *)
(* require_api_key, lines 187-212.  query is the api_key of the query      *)
(* string, has_json tells whether the request has a JSON body, json_key is *)
(* the api_key of that body; NoKey is a field that is not there.           *)
(***************************************************************************)
\* The peer of an HTTP request, which is not a socket connection.
HTTP_PEER == -2

\* Python truth of an api_key: None and '' are false.
Truthy(api_key) == api_key # NoKey /\ api_key # <<>>

\* The status of the response.  `request.args.get('api_key') or
\* request.json.get('api_key')` reads the body only when the query string has
\* no key, and raises without a JSON body, which the except clause turns into
\* 500; a request without key is given the default key (lines 194-196).
require_api_key(query, has_json, json_key) ==
    IF ~Truthy(query) /\ ~has_json THEN "500"
    ELSE LET given == IF Truthy(query) THEN query ELSE json_key
             api_key == IF Truthy(given) THEN given ELSE DEFAULT_KEY
         IN  IF api_key \notin Range(API_KEYS) THEN "401" ELSE "200"

HttpResponse(endpoint, status) ==
    [event |-> "http_response", to |-> HTTP_PEER, status |-> status, text |-> endpoint,
     receiver_id |-> 0, msg |-> <<>>]

http_get(endpoint, query, has_json, json_key) ==
    /\ emitted' = <<HttpResponse(endpoint, require_api_key(query, has_json, json_key))>>
    /\ publisher' = 0
    /\ raised' = 0
    /\ UNCHANGED <<API_KEYS, rooms, connection_vars, receiver_vars, generator_vars, waiting_vars,
                   time_vars, id_vars, history_vars>>

(***************************************************************************)
(* Time passes.                                                            *)
(***************************************************************************)
TickBy(seconds) ==
    /\ clock' = clock + seconds
    /\ emitted' = <<>>
    /\ publisher' = 0
    /\ raised' = 0
    /\ UNCHANGED <<API_KEYS, rooms, connection_vars, receiver_vars, generator_vars, waiting_vars,
                   now, id_vars, history_vars>>

Tick == TickBy(1)

(***************************************************************************)
(* Requests the clients may send.  Each step below takes the credentials   *)
(* (and overrides) the clients choose from and the bound that keeps the    *)
(* counters finite.                                                        *)
(***************************************************************************)
Names == {"Display-1"}

NoOverrides == <<<<>>, <<>>, <<>>, <<>>>>

AllOverrides ==
    << << << <<"10.0.0.2", 9000>> >> >>, << << <<"/custom", 1>> >> >>, << <<1000>> >>, << <<2000>> >> >>

\* destinations and interval_min are given, addresses and interval_max are not.
SomeOverrides == << << << <<"10.0.0.2", 9000>> >> >>, <<>>, << <<1000>> >>, <<>> >>

\* Every field is given, the lists empty and the intervals null.
EmptyOverrides == << << <<>> >>, << <<>> >>, << <<>> >>, << <<>> >> >>

OverrideInputs == {NoOverrides, AllOverrides, SomeOverrides, EmptyOverrides}

\* destinations and addresses are given, and an interval_min that is no number.
BadMinOverrides ==
    << << << <<"10.0.0.2", 9000>> >> >>, << << <<"/custom", 1>> >> >>, <<NotANumber>>, << <<2000>> >> >>

\* interval_min is given, and an interval_max that is no number.
BadMaxOverrides == << <<>>, <<>>, << <<1000>> >>, <<NotANumber>> >>

BadOverrideInputs == {BadMinOverrides, BadMaxOverrides}

\* 0 is a request without a (known) receiver id.
ReceiverIdInputs == 0..(next_receiver_id - 1)

SendAddresses == {<<"/custom", 1>>}

SendValues == {1}

\* The key of API_KEYS=k, and a key that is not configured.
ValidOnly == {<<"k">>}

WrongOnly == {<<"x">>}

ValidAndWrong == ValidOnly \cup WrongOnly

(***************************************************************************)
(* What the relay client hears of a step of the server.                    *)
(***************************************************************************)
\* The events that OSCRelayClient has a handler for (lines 162-167) and that act
\* on its state: a status_update acts when its status is 'connected' (line 344).
ClientHandles(e) ==
    \/ e.event \in {"registration_confirmed", "registration_failed"}
    \/ e.event = "status_update" /\ e.status = "connected"

\* The events of a step that are sent to the session of the relay client.
Heard(events, sid) ==
    SelectSeq(events, LAMBDA e : e.to \in {sid, BROADCAST} /\ ClientHandles(e))

RelayHears ==
    relay_client' =
        IF relay_client.sid = 0
        THEN relay_client
        ELSE [relay_client EXCEPT !.inbox = @ \o Heard(emitted', relay_client.sid)]

Connect(creds, max_connections) ==
    /\ \E auth \in creds :
        /\ next_sid <= max_connections
        /\ handle_connect(auth)
    /\ UNCHANGED relay_client

Disconnect ==
    /\ \E sid \in Sids : handle_disconnect(sid)
    /\ UNCHANGED relay_client

Ping ==
    /\ \E sid \in Sids : handle_ping(sid)
    /\ UNCHANGED relay_client

\* The sweep thread wakes up.
CheckConnections == check_connections /\ UNCHANGED relay_client

GetStatus(creds) ==
    /\ \E sid \in Sids, key \in creds : handle_get_status(sid, key)
    /\ UNCHANGED relay_client

RegisterReceiver(creds, max_receivers) ==
    /\ \E sid \in Sids \ {relay_client.sid}, key \in creds, name \in Names :
        /\ AuthorizedLoose(key) => next_receiver_id <= max_receivers
        /\ handle_register_receiver(sid, key, name)
    /\ RelayHears

UnregisterReceiver(creds) ==
    /\ \E sid \in Sids, key \in creds, rid \in ReceiverIdInputs :
        handle_unregister_receiver(sid, key, rid)
    /\ UNCHANGED relay_client

StartSending(creds, overrides, max_threads) ==
    /\ \E sid \in Sids, key \in creds, rid \in ReceiverIdInputs, o \in overrides :
        /\ next_thread_id <= max_threads
        /\ handle_start_sending(sid, key, rid, o[1], o[2], o[3], o[4])
    /\ UNCHANGED relay_client

\* A start_sending that arrives while the generator is Running.
StartSendingAgain(creds, overrides) ==
    /\ \E sid \in Sids, key \in creds, rid \in ReceiverIdInputs, o \in overrides :
        /\ is_sending
        /\ handle_start_sending(sid, key, rid, o[1], o[2], o[3], o[4])
    /\ UNCHANGED relay_client

\* A start_sending in which float() raises.
StartSendingFails(creds) ==
    /\ \E sid \in Sids, key \in creds, rid \in ReceiverIdInputs, o \in BadOverrideInputs :
           handle_start_sending(sid, key, rid, o[1], o[2], o[3], o[4])
    /\ UNCHANGED relay_client

StopSending(creds) ==
    /\ \E sid \in Sids, key \in creds : handle_stop_sending(sid, key)
    /\ UNCHANGED relay_client

StopSendingJoined ==
    /\ \E w \in stop_waiting : handle_stop_sending_joined(w)
    /\ UNCHANGED relay_client

StartSendingStarted ==
    /\ \E w \in start_waiting : handle_start_sending_started(w)
    /\ UNCHANGED relay_client

GeneratorLoop(max_choice, max_time) ==
    /\ \E t \in threads, choice \in 1..max_choice :
        /\ is_sending => now < max_time
        /\ send_random_osc_messages(t, choice, TRUE)
    /\ UNCHANGED relay_client

\* An iteration in which a UDP send raises.
GeneratorLoopFails(max_choice) ==
    /\ \E t \in threads, choice \in 1..max_choice :
        /\ is_sending
        /\ send_random_osc_messages(t, choice, FALSE)
    /\ UNCHANGED relay_client

SendValue(creds, addresses, max_time) ==
    /\ \E sid \in Sids, key \in creds, address \in addresses, value \in SendValues :
        /\ Authorized(key) => now < max_time
        /\ handle_send_value(sid, key, address, value, TRUE)
    /\ UNCHANGED relay_client

\* A send_value in which a UDP send raises.
SendValueFails(creds, addresses) ==
    /\ \E sid \in Sids, key \in creds, address \in addresses, value \in SendValues :
        /\ Authorized(key)
        /\ handle_send_value(sid, key, address, value, FALSE)
    /\ UNCHANGED relay_client

\* The rooms a join request names: none, the room of a session, whose sid every
\* client_list_update announces (lines 346-349), or the room of a receiver.
JoinRooms ==
    {<<>>} \cup {RoomOfSid(sid) : sid \in Sids}
           \cup {RoomOfReceiver(r) : r \in DOMAIN registered_receivers}

Join ==
    /\ \E sid \in Sids, room \in JoinRooms : handle_join(sid, room)
    /\ UNCHANGED relay_client

HttpEndpoints == {"/api/status", "/api/receivers"}

HttpGet(creds) ==
    /\ \E endpoint \in HttpEndpoints, query \in creds, has_json \in BOOLEAN, json_key \in creds :
        http_get(endpoint, query, has_json, json_key)
    /\ UNCHANGED relay_client

TimePasses(max_clock) == clock < max_clock /\ Tick /\ UNCHANGED relay_client

\* The sweep thread sleeps: time.sleep(5) of connection_check_loop.
SweepSleeps(max_clock) == clock < max_clock /\ TickBy(CHECK_INTERVAL) /\ UNCHANGED relay_client

(***************************************************************************)
(* OSCRelayClient of osc_relay_client.py.  __init__ (lines 140-167) does   *)
(* not assign running, is_connecting, was_manually_disconnected,           *)
(* reconnect_attempts or max_reconnect_attempts; the client is taken with  *)
(* the values of NotStarted, which is what start() and run() read them as. *)
(* The reconnection that socketio.Client does by itself (lines 143-147) is *)
(* the library's and is left out: a connection is made by run() only.      *)
(***************************************************************************)
\* Every variable but relay_client: a step of the client alone leaves the
\* server as it is.
server_vars ==
    <<API_KEYS, rooms, connection_vars, receiver_vars, generator_vars, waiting_vars,
      time_vars, id_vars, history_vars, emitted, raised, publisher>>

\* self.max_reconnect_attempts of line 241.
max_reconnect_attempts == 5

\* self.api_key and self.name of the register_receiver request (lines 276-279).
RelayKey == <<"k">>

RelayName == "Display-1"

\* The thread of start() (line 192) and the thread of the disconnect handler.
RelayThreads == {"main", "events"}

At(th, pc) ==
    /\ relay_client.stack[th] # <<>>
    /\ relay_client.stack[th][Len(relay_client.stack[th])] = pc

Goto(th, pc) == [relay_client.stack EXCEPT ![th] = [@ EXCEPT ![Len(@)] = pc]]

Return(th) == [relay_client.stack EXCEPT ![th] = SubSeq(@, 1, Len(@) - 1)]

Request(ev, rid) == [event |-> ev, receiver_id |-> rid]

\* start(), lines 188-193, which main() and start_client() call once on a
\* client they have just made (lines 653-656 and 797-806).
start ==
    /\ relay_client = NotStarted
    /\ relay_client' = [relay_client EXCEPT !.running = TRUE, !.stack["main"] = <<"run">>]
    /\ UNCHANGED server_vars

\* run(), lines 211-216 and 227 and 252-254: the guard, taken under
\* connection_lock.  A call that finds is_connecting set returns through the
\* finally clause.
run_guard(th) ==
    /\ At(th, "run")
    /\ relay_client' =
          IF relay_client.is_connecting
          THEN [relay_client EXCEPT !.stack = Goto(th, "finally")]
          ELSE [relay_client EXCEPT
                   !.is_connecting = TRUE,
                   !.stack = Goto(th, IF relay_client.sid = 0 THEN "connect" ELSE "loop")]
    /\ UNCHANGED server_vars

\* self.sio.connect(...) of line 230 succeeds: the server runs handle_connect,
\* and the client is sent the connect event and what the handler emits to it.
run_connect(th, max_connections) ==
    /\ At(th, "connect")
    /\ next_sid <= max_connections
    /\ handle_connect(RelayKey)
    /\ relay_client' =
          [relay_client EXCEPT
              !.sid = next_sid,
              !.inbox = <<Event("connect", next_sid, "", 0, <<>>)>> \o Heard(emitted', next_sid),
              !.outbox = <<>>,
              !.reconnect_attempts = 0,
              !.stack = Goto(th, "loop")]

\* self.sio.connect(...) raises: the except clause of lines 236-251.
run_connect_failed(th) ==
    /\ At(th, "connect")
    /\ relay_client' =
          IF relay_client.running /\ ~relay_client.was_manually_disconnected
          THEN IF relay_client.reconnect_attempts + 1 <= max_reconnect_attempts
               THEN [relay_client EXCEPT
                        !.reconnect_attempts = @ + 1, !.stack = Goto(th, "sleep")]
               ELSE [relay_client EXCEPT
                        !.reconnect_attempts = @ + 1, !.running = FALSE,
                        !.stack = Goto(th, "loop")]
          ELSE [relay_client EXCEPT !.stack = Goto(th, "loop")]
    /\ UNCHANGED server_vars

\* time.sleep(delay) of line 245 is over: `if self.running: self.run()`.  The
\* caller goes on at the loop of line 256 when the call returns.
run_sleep(th) ==
    /\ At(th, "sleep")
    /\ relay_client' =
          IF relay_client.running
          THEN [relay_client EXCEPT
                   !.stack = [Goto(th, "loop") EXCEPT ![th] = Append(@, "run")]]
          ELSE [relay_client EXCEPT !.stack = Goto(th, "loop")]
    /\ UNCHANGED server_vars

\* `while self.running: time.sleep(0.1)`, lines 256-257.
run_loop(th) ==
    /\ At(th, "loop")
    /\ relay_client' =
          IF relay_client.running
          THEN relay_client
          ELSE [relay_client EXCEPT !.stack = Goto(th, "finally")]
    /\ UNCHANGED server_vars

\* The finally clause, lines 261-265, and the return.
run_finally(th) ==
    /\ At(th, "finally")
    /\ relay_client' = [relay_client EXCEPT !.is_connecting = FALSE, !.stack = Return(th)]
    /\ UNCHANGED server_vars

\* The connection drops: the server runs handle_disconnect and the client's
\* disconnect handler is started.
connection_drops ==
    /\ relay_client.sid # 0
    /\ relay_client.stack["events"] = <<>>
    /\ handle_disconnect(relay_client.sid)
    /\ relay_client' =
          [relay_client EXCEPT
              !.sid = 0, !.inbox = <<>>, !.outbox = <<>>, !.stack["events"] = <<"on_disconnect">>]

\* on_disconnect(), lines 290-302, up to the end of time.sleep(5).
on_disconnect ==
    /\ At("events", "on_disconnect")
    /\ relay_client' =
          IF relay_client.running /\ ~relay_client.was_manually_disconnected
          THEN [relay_client EXCEPT !.stack = Goto("events", "disconnect_sleep")]
          ELSE [relay_client EXCEPT !.stack = Return("events")]
    /\ UNCHANGED server_vars

\* `if self.running: self.run()` of lines 299-300, the last statement of the
\* handler.
on_disconnect_run ==
    /\ At("events", "disconnect_sleep")
    /\ relay_client' =
          IF relay_client.running
          THEN [relay_client EXCEPT !.stack = Goto("events", "run")]
          ELSE [relay_client EXCEPT !.stack = Return("events")]
    /\ UNCHANGED server_vars

\* stop(), lines 195-207: self.sio.disconnect() when connected.
StoppedClient(client) ==
    [client EXCEPT !.running = FALSE, !.sid = 0, !.inbox = <<>>, !.outbox = <<>>]

stop ==
    /\ relay_client.running
    /\ relay_client' = StoppedClient(relay_client)
    /\ IF relay_client.sid # 0
       THEN handle_disconnect(relay_client.sid)
       ELSE UNCHANGED server_vars

\* on_connect(), lines 267-288.
on_connect(client) ==
    IF client.sid # 0
    THEN [client EXCEPT !.outbox = Append(@, Request("register_receiver", 0))]
    ELSE client

\* on_status_update(), lines 328-351.
on_status_update(client, data) ==
    IF data.status = "connected" /\ client.receiver_id = 0 /\ client.sid # 0
    THEN [client EXCEPT !.outbox = Append(@, Request("register_receiver", 0))]
    ELSE client

\* on_registration_confirmed(), lines 304-317.
on_registration_confirmed(client, data) ==
    IF data.receiver_id # 0
    THEN [client EXCEPT
             !.receiver_id = data.receiver_id,
             !.outbox = @ \o <<Request("join", data.receiver_id), Request("get_status", 0)>>]
    ELSE [client EXCEPT !.receiver_id = 0]

\* on_registration_failed(), lines 319-326.
on_registration_failed(client) ==
    StoppedClient([client EXCEPT !.was_manually_disconnected = TRUE])

\* The client handles the event at the head of its inbox.
ClientHandlesEvent ==
    /\ relay_client.inbox # <<>>
    /\ LET data == Head(relay_client.inbox)
           client == [relay_client EXCEPT !.inbox = Tail(@)]
       IN  IF data.event = "registration_failed"
           THEN /\ relay_client' = on_registration_failed(client)
                /\ IF relay_client.sid # 0
                   THEN handle_disconnect(relay_client.sid)
                   ELSE UNCHANGED server_vars
           ELSE /\ relay_client' =
                      IF data.event = "connect" THEN on_connect(client)
                      ELSE IF data.event = "status_update" THEN on_status_update(client, data)
                      ELSE on_registration_confirmed(client, data)
                /\ UNCHANGED server_vars

\* The server handles the request at the head of the client's outbox.
ServerHandlesRequest(max_receivers) ==
    /\ relay_client.outbox # <<>>
    /\ LET data == Head(relay_client.outbox)
           sid == relay_client.sid
       IN  /\ IF data.event = "register_receiver"
              THEN /\ AuthorizedLoose(RelayKey) => next_receiver_id <= max_receivers
                   /\ handle_register_receiver(sid, RelayKey, RelayName)
              ELSE IF data.event = "join"
              THEN handle_join(sid, RoomOfReceiver(data.receiver_id))
              ELSE handle_get_status(sid, RelayKey)
           /\ relay_client' =
                 [relay_client EXCEPT !.outbox = Tail(@), !.inbox = @ \o Heard(emitted', sid)]

RelayClientRuns(max_connections) ==
    \E th \in RelayThreads :
        \/ run_guard(th)
        \/ run_connect(th, max_connections)
        \/ run_connect_failed(th)
        \/ run_sleep(th)
        \/ run_loop(th)
        \/ run_finally(th)

(***************************************************************************)
(* Spec: the relay as a whole under API_KEYS=k, clients presenting "k".     *)
(***************************************************************************)
Next ==
    \/ Connect(ValidOnly, MaxConnections)
    \/ Disconnect
    \/ RegisterReceiver(ValidOnly, MaxReceivers)
    \/ UnregisterReceiver(ValidOnly)
    \/ StartSending(ValidOnly, {NoOverrides}, MaxThreads)
    \/ StopSending(ValidOnly)
    \/ StopSendingJoined
    \/ StartSendingStarted
    \/ GeneratorLoop(MaxChoice, MaxTime)
    \/ SendValue(ValidOnly, SendAddresses, MaxTime)

Spec == InitWith({<<"k">>}) /\ [][Next]_vars

(***************************************************************************)
(* SpecReject: the privileged requests under API_KEYS=k, clients           *)
(* presenting "k" or a key that is not configured.                         *)
(***************************************************************************)
NextReject ==
    \/ Connect(ValidOnly, MaxConnections)
    \/ RegisterReceiver(ValidAndWrong, MaxReceivers)
    \/ UnregisterReceiver(ValidAndWrong)
    \/ StartSending(ValidOnly, {NoOverrides}, MaxThreads)
    \/ StartSending(WrongOnly, {NoOverrides, AllOverrides}, MaxThreads)
    \/ StopSending(ValidAndWrong)
    \/ StopSendingJoined
    \/ StartSendingStarted
    \/ GeneratorLoop(MaxChoice, MaxTime)
    \/ SendValue(ValidAndWrong, SendAddresses, MaxTime)

SpecReject == InitWith({<<"k">>}) /\ [][NextReject]_vars

(***************************************************************************)
(* SpecAuth: every value of the API_KEYS environment variable up to        *)
(* MaxEnvLen characters, clients presenting any credential or none.        *)
(***************************************************************************)
NextAuth ==
    \/ Connect(Credentials, MaxConnections)
    \/ Disconnect
    \/ GetStatus(Credentials)
    \/ RegisterReceiver(Credentials, MaxReceivers)
    \/ UnregisterReceiver(Credentials)
    \/ StartSending(Credentials, {NoOverrides, AllOverrides}, MaxThreads)
    \/ StopSending(Credentials)
    \/ StopSendingJoined
    \/ StartSendingStarted
    \/ GeneratorLoop(MaxChoice, MaxTime)
    \/ SendValue(Credentials, SendAddresses, MaxTime)
    \/ TimePasses(MaxClock)

SpecAuth == Init /\ [][NextAuth]_vars

(***************************************************************************)
(* SpecGenerator: start and stop requests against up to MaxLoops loop      *)
(* threads.                                                                *)
(***************************************************************************)
NextGenerator ==
    \/ Connect(ValidOnly, MaxConnections)
    \/ RegisterReceiver(ValidOnly, MaxReceivers)
    \/ StartSending(ValidOnly, {NoOverrides}, MaxLoops)
    \/ StopSending(ValidOnly)
    \/ StopSendingJoined
    \/ StartSendingStarted
    \/ GeneratorLoop(MaxChoice, MaxLoopTime)

SpecGenerator == InitWith({<<"k">>}) /\ [][NextGenerator]_vars

\* One wake-up of loop thread t.
GeneratorLoopOf(t, max_choice, max_time) ==
    /\ \E choice \in 1..max_choice :
        /\ is_sending => now < max_time
        /\ send_random_osc_messages(t, choice, TRUE)
    /\ UNCHANGED relay_client

(***************************************************************************)
(* SpecGeneratorFair: SpecGenerator under the scheduling of the eventlet   *)
(* hub: a loop thread that can run is run, and a handler whose start() or  *)
(* join() can return is resumed.  MaxLoopTime caps the publishes, so a     *)
(* behaviour that ends at the cap with is_sending true stands for loops    *)
(* that go on publishing while no further request arrives.                 *)
(***************************************************************************)
SpecGeneratorFair ==
    /\ SpecGenerator
    /\ \A t \in 1..MaxLoops : WF_vars(GeneratorLoopOf(t, MaxChoice, MaxLoopTime))
    /\ WF_vars(StopSendingJoined)
    /\ WF_vars(StartSendingStarted)

(***************************************************************************)
(* SpecOverrides: start requests with and without overrides, while the     *)
(* generator is Stopped and while it is Running.                           *)
(***************************************************************************)
NextOverrides ==
    \/ Connect(ValidOnly, MaxConnections)
    \/ RegisterReceiver(ValidOnly, MaxReceivers)
    \/ UnregisterReceiver(ValidOnly)
    \/ StartSending(ValidOnly, OverrideInputs, MaxThreads)
    \/ StartSendingAgain(ValidOnly, OverrideInputs)
    \/ StopSending(ValidOnly)
    \/ StopSendingJoined
    \/ StartSendingStarted
    \/ GeneratorLoop(MaxChoice, MaxTime)

SpecOverrides == InitWith({<<"k">>}) /\ [][NextOverrides]_vars

(***************************************************************************)
(* SpecFailure: publishes by the generator loop and by send_value in which *)
(* a UDP send may raise.                                                   *)
(***************************************************************************)
NextFailure ==
    \/ Connect(ValidOnly, MaxConnections)
    \/ Disconnect
    \/ RegisterReceiver(ValidOnly, MaxReceivers)
    \/ StartSending(ValidOnly, {NoOverrides}, MaxThreads)
    \/ StartSendingStarted
    \/ StopSending(ValidOnly)
    \/ StopSendingJoined
    \/ GeneratorLoop(MaxChoice, MaxTime)
    \/ GeneratorLoopFails(MaxChoice)
    \/ SendValue(ValidOnly, SendAddresses, MaxTime)
    \/ SendValueFails(ValidOnly, SendAddresses)

SpecFailure == InitWith({<<"k">>}) /\ [][NextFailure]_vars

(***************************************************************************)
(* SpecSweep: connections that ping, fall silent and are dropped by the    *)
(* sweep, and the registrations they send before and after.                *)
(***************************************************************************)
NextSweep ==
    \/ Connect(ValidOnly, MaxConnections)
    \/ Disconnect
    \/ Ping
    \/ SweepSleeps(MaxSweepClock)
    \/ CheckConnections
    \/ RegisterReceiver(ValidAndWrong, MaxReceivers)

SpecSweep == InitWith({<<"k">>}) /\ [][NextSweep]_vars

(***************************************************************************)
(* SpecDirectory: the receiver directory with up to MaxDirectory           *)
(* registrations, some under the same name.                                *)
(***************************************************************************)
NextDirectory ==
    \/ Connect(ValidOnly, MaxConnections)
    \/ Disconnect
    \/ RegisterReceiver(ValidAndWrong, MaxDirectory)
    \/ UnregisterReceiver(ValidOnly)
    \/ GetStatus(ValidOnly)
    \/ SendValue(ValidOnly, SendAddresses, MaxTime)
    \/ TimePasses(MaxClock)

SpecDirectory == InitWith({<<"k">>}) /\ [][NextDirectory]_vars

(***************************************************************************)
(* SpecReregister: connections that register, go away and come back to     *)
(* register again under the same name, while messages are published.       *)
(***************************************************************************)
NextReregister ==
    \/ Connect(ValidOnly, MaxSessions)
    \/ Disconnect
    \/ RegisterReceiver(ValidOnly, MaxDirectory)
    \/ SendValue(ValidOnly, SendAddresses, MaxTime)

SpecReregister == InitWith({<<"k">>}) /\ [][NextReregister]_vars

(***************************************************************************)
(* SpecFanout: publishes of the loop and of send_value between which        *)
(* registrations, unregistrations, disconnects and the sweep change the    *)
(* receiver directory.  A publish has no point at which the eventlet hub   *)
(* can run another handler, so the directory changes between publishes.    *)
(***************************************************************************)
NextFanout ==
    \/ Connect(ValidOnly, MaxConnections)
    \/ Disconnect
    \/ RegisterReceiver(ValidOnly, MaxDirectory)
    \/ UnregisterReceiver(ValidOnly)
    \/ connected_clients # {} /\ SweepSleeps(MaxSweepClock)
    \/ CheckConnections
    \/ StartSending(ValidOnly, {NoOverrides}, MaxThreads)
    \/ StartSendingStarted
    \/ GeneratorLoop(MaxChoice, MaxTime)
    \/ SendValue(ValidOnly, SendAddresses, MaxTime)

SpecFanout == InitWith({<<"k">>}) /\ [][NextFanout]_vars

(***************************************************************************)
(* SpecRooms: up to MaxSessions connections that join rooms, register and  *)
(* unregister receivers and publish values.                                *)
(***************************************************************************)
NextRooms ==
    \/ Connect(ValidOnly, MaxSessions)
    \/ Disconnect
    \/ Join
    \/ RegisterReceiver(ValidOnly, MaxReceivers)
    \/ UnregisterReceiver(ValidOnly)
    \/ SendValue(ValidOnly, SendAddresses, MaxTime)

SpecRooms == Init /\ [][NextRooms]_vars

(***************************************************************************)
(* SpecRelay: an OSCRelayClient whose key is or is not configured, and      *)
(* another connection, which registers at most one receiver.               *)
(***************************************************************************)
NextRelay ==
    \/ start
    \/ RelayClientRuns(MaxSessions)
    \/ connection_drops
    \/ on_disconnect
    \/ on_disconnect_run
    \/ stop
    \/ ClientHandlesEvent
    \/ ServerHandlesRequest(MaxDirectory)
    \/ Connect(ValidOnly, MaxSessions)
    \/ RegisterReceiver(ValidOnly, MaxReceivers)

SpecRelay == InitWith({<<"k">>, <<"x">>}) /\ [][NextRelay]_vars

\* The threads of the client are scheduled: a thread that can take a step of
\* run() or of the disconnect handler takes it.  Nothing obliges the
\* environment to drop a connection or the user to stop the client.
SpecRelayFair ==
    /\ InitWith({<<"k">>, <<"x">>})
    /\ [][NextRelay]_vars
    /\ WF_vars(RelayClientRuns(MaxSessions))
    /\ WF_vars(on_disconnect)
    /\ WF_vars(on_disconnect_run)

(***************************************************************************)
(* SpecSweepFair: the sweep over up to MaxSessions connections that send   *)
(* no heartbeat after their connect.  The loop of connection_check_loop    *)
(* (lines 752-756) never ends and its thread is started with the module    *)
(* (lines 759-760), so the sweep is run again and again.                   *)
(***************************************************************************)
NextSweepFair ==
    \/ Connect(ValidOnly, MaxSessions)
    \/ Disconnect
    \/ SweepSleeps(MaxSweepClock)
    \/ CheckConnections
    \/ RegisterReceiver(ValidOnly, MaxReceivers)

SpecSweepFair ==
    /\ InitWith({<<"k">>})
    /\ [][NextSweepFair]_vars
    /\ WF_vars(CheckConnections)

(***************************************************************************)
(* SpecStartFails: SpecOverrides and start_sending requests whose          *)
(* interval_min or interval_max is not a number.                           *)
(***************************************************************************)
NextStartFails ==
    \/ NextOverrides
    \/ StartSendingFails(ValidOnly)

SpecStartFails == InitWith({<<"k">>}) /\ [][NextStartFails]_vars

(***************************************************************************)
(* SpecEvicted: every event of a connection, before and after the sweep    *)
(* has evicted it.                                                         *)
(***************************************************************************)
\* The sessions that are open and whose connection the sweep has evicted.
EvictedSessions == sessions \ DOMAIN connection_tracker

\* The events a client sends on a session whose connection the sweep has
\* evicted: the transport is still open, so the server still runs the handler.
EvictedPings ==
    /\ \E sid \in EvictedSessions : handle_ping(sid)
    /\ UNCHANGED relay_client

EvictedGetsStatus(creds) ==
    /\ \E sid \in EvictedSessions, key \in creds : handle_get_status(sid, key)
    /\ UNCHANGED relay_client

EvictedJoins ==
    /\ \E sid \in EvictedSessions, room \in JoinRooms : handle_join(sid, room)
    /\ UNCHANGED relay_client

EvictedRegisters(creds) ==
    /\ \E sid \in EvictedSessions, key \in creds, name \in Names :
        handle_register_receiver(sid, key, name)
    /\ UNCHANGED relay_client

EvictedUnregisters(creds) ==
    /\ \E sid \in EvictedSessions, key \in creds, rid \in ReceiverIdInputs :
        handle_unregister_receiver(sid, key, rid)
    /\ UNCHANGED relay_client

EvictedStartsSending(creds, max_threads) ==
    /\ \E sid \in EvictedSessions, key \in creds, rid \in ReceiverIdInputs :
        /\ next_thread_id <= max_threads
        /\ handle_start_sending(sid, key, rid, <<>>, <<>>, <<>>, <<>>)
    /\ UNCHANGED relay_client

EvictedStopsSending(creds) ==
    /\ \E sid \in EvictedSessions, key \in creds : handle_stop_sending(sid, key)
    /\ UNCHANGED relay_client

EvictedSendsValue(creds, addresses, max_time) ==
    /\ \E sid \in EvictedSessions, key \in creds, address \in addresses, value \in SendValues :
        /\ Authorized(key) => now < max_time
        /\ handle_send_value(sid, key, address, value, TRUE)
    /\ UNCHANGED relay_client

\* Connections come, register and go, and the sweep evicts the silent ones.
NextEvicted ==
    \/ Connect(ValidOnly, MaxConnections)
    \/ Disconnect
    \/ Ping
    \/ RegisterReceiver(ValidOnly, MaxReceivers)
    \/ connected_clients # {} /\ SweepSleeps(MaxSweepClock)
    \/ CheckConnections
    \/ EvictedPings
    \/ EvictedGetsStatus(ValidOnly)
    \/ EvictedJoins
    \/ EvictedRegisters(ValidOnly)
    \/ EvictedUnregisters(ValidOnly)
    \/ EvictedStartsSending(ValidOnly, MaxThreads)
    \/ EvictedStopsSending(ValidOnly)
    \/ EvictedSendsValue(ValidOnly, SendAddresses, MaxTime)

SpecEvicted == InitWith({<<"k">>}) /\ [][NextEvicted]_vars

(***************************************************************************)
(* SpecHttp: the HTTP side-channel under every value of API_KEYS up to     *)
(* MaxEnvLen characters, requests carrying any credential or none.         *)
(***************************************************************************)
NextHttp ==
    \/ Connect(Credentials, MaxConnections)
    \/ RegisterReceiver(Credentials, MaxReceivers)
    \/ HttpGet(Credentials)
    \/ TimePasses(MaxClock)

SpecHttp == Init /\ [][NextHttp]_vars

(***************************************************************************)
(* SpecBacklog: long runs of publishes, more than MAX_QUEUE_SIZE of them.  *)
(***************************************************************************)
NextBacklog ==
    \/ Connect(ValidOnly, MaxConnections)
    \/ RegisterReceiver(ValidOnly, MaxReceivers)
    \/ StartSending(ValidOnly, {NoOverrides}, MaxThreads)
    \/ StartSendingStarted
    \/ GeneratorLoop(MaxChoice, MaxBacklogTime)
    \/ SendValue(ValidOnly, {OSC_ADDRESSES[1]}, MaxBacklogTime)

SpecBacklog == InitWith({<<"k">>}) /\ [][NextBacklog]_vars

(***************************************************************************)
(* SpecLoopBacklog: more than MAX_QUEUE_SIZE publishes of the generator    *)
(* loop.  The fan-out of send_value is its own copy of the loop's, and is  *)
(* compared with it in every state by C26.                                 *)
(***************************************************************************)
NextLoopBacklog ==
    \/ Connect(ValidOnly, MaxConnections)
    \/ RegisterReceiver(ValidOnly, MaxReceivers)
    \/ StartSending(ValidOnly, {NoOverrides}, MaxThreads)
    \/ StartSendingStarted
    \/ GeneratorLoop(MaxChoice, MaxBacklogTime)

SpecLoopBacklog == InitWith({<<"k">>}) /\ [][NextLoopBacklog]_vars

(***************************************************************************)
(* SpecOffline: long runs of publishes after the owner of a receiver has   *)
(* disconnected.                                                           *)
(***************************************************************************)
NextOffline ==
    \/ Connect(ValidOnly, MaxConnections)
    \/ RegisterReceiver(ValidOnly, MaxReceivers)
    \/ StartSending(ValidOnly, {NoOverrides}, MaxThreads)
    \/ Disconnect
    \/ StartSendingStarted
    \/ GeneratorLoop(MaxChoice, MaxBacklogTime)

SpecOffline == InitWith({<<"k">>}) /\ [][NextOffline]_vars

(***************************************************************************)
(* Properties.                                                             *)
(***************************************************************************)
\* The last step was a publish: its first event is the osc_message broadcast.
Published == emitted # <<>> /\ emitted[1].event = "osc_message"

\* The relay_message events of the last step that were emitted for receiver r.
RelayedFor(events, r) ==
    {i \in DOMAIN events : events[i].event = "relay_message" /\ events[i].receiver_id = r}

QueueOf(queues, r) == IF r \in DOMAIN queues THEN queues[r] ELSE <<>>

C2_DisconnectDeactivates ==
    [][\A sid \in Sids :
          handle_disconnect(sid) =>
              \A r \in OwnedBy(registered_receivers, sid) :
                  /\ r \in DOMAIN registered_receivers'
                  /\ registered_receivers'[r].active = FALSE]_vars

\* C3: a publish emits the message as relay_message to the connection of
\* every active receiver and leaves that receiver's backlog alone; for every
\* inactive receiver it appends the message to the backlog and emits nothing.
C3_FanoutByActiveFlag ==
    [][(emitted' # <<>> /\ emitted'[1].event = "osc_message") =>
          LET m == emitted'[1].msg[1]
          IN  \A r \in DOMAIN registered_receivers :
                  IF registered_receivers[r].active
                  THEN /\ \E i \in RelayedFor(emitted', r) :
                              /\ emitted'[i].to = registered_receivers[r].socket_id
                              /\ emitted'[i].msg = <<m>>
                       /\ Cardinality(RelayedFor(emitted', r)) = 1
                       /\ QueueOf(message_queue', r) = QueueOf(message_queue, r)
                  ELSE /\ RelayedFor(emitted', r) = {}
                       /\ QueueOf(message_queue', r) # <<>>
                       /\ QueueOf(message_queue', r)[Len(QueueOf(message_queue', r))] = m]_vars

\* A generator iteration has just published to an active receiver, whose
\* connection got the relay_message and whose backlog is empty.
C3_Witness ==
    /\ Published
    /\ publisher # 0
    /\ \E r \in DOMAIN registered_receivers :
          /\ registered_receivers[r].active
          /\ RelayedFor(emitted, r) # {}
          /\ QueueOf(message_queue, r) = <<>>

\* The timestamps of the last n entries of a sequence.
LastN(s, n) == SubSeq(s, Len(s) - n + 1, Len(s))

\* C4: once more than MAX_QUEUE_SIZE messages have been published since the
\* owner of a receiver disconnected, the receiver's backlog is exactly the
\* last MAX_QUEUE_SIZE of them, in publish order.
C4_BacklogIsLastPublished ==
    \A r \in DOMAIN missed :
        Len(missed[r]) > MAX_QUEUE_SIZE =>
            /\ r \in DOMAIN message_queue
            /\ [i \in DOMAIN message_queue[r] |-> message_queue[r][i].timestamp]
                  = LastN(missed[r], MAX_QUEUE_SIZE)

\* C6: every connection in the registry presented a configured, non-empty
\* credential in its handshake.
C6_OnlyAuthenticatedConnections ==
    \A sid \in DOMAIN connection_tracker \cup connected_clients :
        Authorized(handshake_auth[sid])

\* Some request of the five privileged kinds, carrying the given key.
AnyRequest(sid, key) ==
    \/ \E name \in Names : handle_register_receiver(sid, key, name)
    \/ \E rid \in ReceiverIdInputs : handle_unregister_receiver(sid, key, rid)
    \/ \E rid \in ReceiverIdInputs, o \in {NoOverrides, AllOverrides} :
          handle_start_sending(sid, key, rid, o[1], o[2], o[3], o[4])
    \/ handle_stop_sending(sid, key)
    \/ \E address \in SendAddresses, value \in SendValues :
          handle_send_value(sid, key, address, value, TRUE)

\* C7: a register_receiver, unregister_receiver, start_sending, stop_sending
\* or send_value request whose credential is not a configured key leaves the
\* receiver directory, the generator state and the backlog unchanged.
C7_RejectedRequestChangesNothing ==
    [][\/ UNCHANGED <<registered_receivers, generator_vars, message_queue>>
       \/ \A sid \in Sids, key \in ValidAndWrong :
              ~(key \notin Range(API_KEYS) /\ AnyRequest(sid, key))]_vars

\* A request was just refused as Unauthorized while a receiver is registered
\* and the generator is running.
C7_Witness ==
    /\ is_sending
    /\ threads # {}
    /\ registered_receivers # EmptyMap
    /\ \E sid \in Sids : emitted = <<StatusEvent("error", "Unauthorized", sid)>>

\* C8: the credential a receiver was registered with is a non-empty
\* configured key, whatever API_KEYS was set to.
C8_RegisteredWithNonEmptyKey ==
    \A r \in DOMAIN registered_receivers :
        /\ registered_receivers[r].api_key # <<>>
        /\ registered_receivers[r].api_key \in Range(API_KEYS)

\* The loop threads that have begun to run and pass `while is_sending` at
\* their next wake-up.
RunningLoops == IF is_sending THEN threads \ limbo ELSE {}

\* C9: at most one generator loop is running.
C9_AtMostOneLoop == Cardinality(RunningLoops) <= 1

\* C10: a loop that was running when a stop was issued publishes nothing
\* once that stop has been acknowledged with 'stopped'.
C10_NoPublishAfterStopAck == publisher \notin stop_acked

\* A stop_sending with a configured key was handled while the generator was
\* Running and has not been acknowledged: is_sending is false, which only that
\* handler does, and the thread of the last start, which the handler joins
\* before it acknowledges, has not ended.
StopIssued == ~is_sending /\ send_thread \in threads

\* The last step broadcast status_update {status: 'stopped'}.
StoppedBroadcast ==
    \E i \in DOMAIN emitted :
        emitted[i] = StatusEvent("stopped", "OSC message sending stopped", BROADCAST)

\* C11: every stop_sending with a valid credential issued while the
\* generator is Running is eventually followed by the broadcast of status
\* 'stopped' (which the handler sends once the loop thread has terminated),
\* whatever is handled meanwhile.
C11_StopEventuallyAcknowledged == StopIssued ~> StoppedBroadcast

\* A start_sending request with the configured key "k" and the given receiver
\* id and overrides is handled in this step.
ValidStart(sid, rid, o) == handle_start_sending(sid, <<"k">>, rid, o[1], o[2], o[3], o[4])

\* The step answers sid with status 'info' and leaves the generator alone.
InfoAndNoChange(sid) ==
    /\ emitted' = <<StatusEvent("info", "OSC message sending already in progress", sid)>>
    /\ UNCHANGED generator_vars

\* C12: a start_sending with a valid credential received while the generator
\* is Running is answered with status 'info' and changes none of is_sending,
\* the loop thread, destinations, current_addresses, interval_min and
\* interval_max, whatever overrides it supplies.
C12_RunningStartIsNoOp ==
    [][\/ ~is_sending
       \/ \A sid \in Sids, rid \in ReceiverIdInputs, o \in OverrideInputs :
              ValidStart(sid, rid, o) => InfoAndNoChange(sid)]_vars

\* C12, amended: the same for a start_sending that names a registered receiver.
C12_RunningStartOfReceiverIsNoOp ==
    [][\/ ~is_sending
       \/ \A sid \in Sids, rid \in DOMAIN registered_receivers, o \in OverrideInputs :
              ValidStart(sid, rid, o) => InfoAndNoChange(sid)]_vars

\* A start was just answered with 'info' while a loop thread is running.
C12_Witness ==
    /\ is_sending
    /\ send_thread \in threads \ limbo
    /\ \E sid \in Sids :
          emitted = <<StatusEvent("info", "OSC message sending already in progress", sid)>>

\* The step moves the generator to Running and spawns one loop thread, and
\* the handler of sid waits for start() to return.
SpawnsOneLoop(sid) ==
    /\ is_sending'
    /\ Cardinality(threads' \ threads) = 1
    /\ threads \subseteq threads'
    /\ send_thread' \in threads' \ threads
    /\ \E w \in start_waiting' \ start_waiting : w.client_id = sid /\ w.thread = send_thread'

\* A start_sending handler resumes after start() in this step.
StartReturns == start_waiting' # start_waiting /\ start_waiting' \subseteq start_waiting

\* The step broadcasts status 'started'.
BroadcastsStarted ==
    \E i \in DOMAIN emitted' :
        emitted'[i] = StatusEvent("started", "OSC message sending started", BROADCAST)

Supplied(new) == new # <<>>

\* The request gives the field a non-empty list, or a number.
SuppliedValue(new) == new # <<>> /\ new[1] # <<>>

\* The four configuration fields after the step are what the claim says for
\* the overrides o, when dests, addrs, min and max tell which fields count as
\* supplied.
ConfigOverwritten(o, dests, addrs, min, max) ==
    /\ destinations' = IF dests THEN o[1][1] ELSE destinations
    /\ current_addresses' = IF addrs THEN o[2][1] ELSE current_addresses
    /\ interval_min' = IF min THEN o[3][1][1] ELSE interval_min
    /\ interval_max' = IF max THEN o[4][1][1] ELSE interval_max

\* C14: a successful start_sending overwrites exactly those of destinations,
\* addresses, interval_min and interval_max that the request supplies (a null
\* interval aside), and every field it does not supply keeps its value.
C14_SuppliedFieldsOverwritten ==
    [][\/ is_sending
       \/ \A sid \in Sids, rid \in DOMAIN registered_receivers, o \in OverrideInputs :
              ValidStart(sid, rid, o) =>
                  ConfigOverwritten(o, Supplied(o[1]), Supplied(o[2]),
                                    SuppliedValue(o[3]), SuppliedValue(o[4]))]_vars

\* C14, amended: a successful start_sending overwrites exactly those fields
\* that the request supplies with a non-empty list or with a number; a field
\* that is absent, an empty list or null keeps its value.
C14_NonEmptyFieldsOverwritten ==
    [][\/ is_sending
       \/ \A sid \in Sids, rid \in DOMAIN registered_receivers, o \in OverrideInputs :
              ValidStart(sid, rid, o) =>
                  ConfigOverwritten(o, SuppliedValue(o[1]), SuppliedValue(o[2]),
                                    SuppliedValue(o[3]), SuppliedValue(o[4]))]_vars

\* A start that gave destinations and interval_min only has been handled.
C14_Witness ==
    /\ is_sending
    /\ destinations = SomeOverrides[1][1]
    /\ current_addresses = OSC_ADDRESSES
    /\ interval_min = SomeOverrides[3][1][1]
    /\ interval_max = DEFAULT_INTERVAL_MAX

\* The handler of the step ran to its end: it is not left waiting in start()
\* or join().
HandlerCompletes == UNCHANGED waiting_vars

\* The step emits an event that reaches connection sid.
AnsweredTo(sid) == \E i \in DOMAIN emitted' : emitted'[i].to \in {sid, BROADCAST}

\* C15: every register_receiver, unregister_receiver, start_sending,
\* stop_sending and send_value request, in every state and with any
\* credential, has an event emitted to the requesting connection by the time
\* its handler ends.
C15_EveryRequestAnswered ==
    [][\A sid \in Sids, key \in ValidAndWrong :
          AnyRequest(sid, key) /\ HandlerCompletes => AnsweredTo(sid)]_vars

\* Receiver r got the message of the last step, or has it in its backlog.
DeliveredOrEnqueued(r) ==
    \/ RelayedFor(emitted, r) # {}
    \/ r \in DOMAIN message_queue /\ message_queue[r] # <<>>

\* C16: a publish in which a delivery attempt to a UDP destination failed
\* has still broadcast the message as osc_message and delivered it to, or
\* enqueued it for, every receiver in the directory.
C16_FailedDeliveryDoesNotAbortPublish ==
    raised # 0 =>
        /\ Published
        /\ \A r \in DOMAIN registered_receivers : DeliveredOrEnqueued(r)

\* C17: an exception raised inside an iteration of the generator loop leaves
\* the loop thread alive, and a loop thread ends only in a step that found
\* is_sending false.
C17_LoopSurvivesException ==
    [][/\ raised' > 0 => raised' \in threads'
       /\ threads \ threads' # {} => ~is_sending]_vars

\* An iteration of a loop thread has just raised while the generator is
\* Running: the thread is still there to run its next iteration.
C17_Witness ==
    /\ raised > 0
    /\ raised \in threads
    /\ is_sending

\* Event i of the step is the only relay_message of the step for its receiver,
\* and it carries the message of the publish that the step makes.
RelaysThisPublishOnce(i) ==
    /\ emitted'[i].msg[1].timestamp = now
    /\ now' = now + 1
    /\ RelayedFor(emitted', emitted'[i].receiver_id) = {i}

RegistrationRefused(sid) ==
    /\ Len(emitted') = 1
    /\ emitted'[1].event = "registration_failed"
    /\ emitted'[1].to = sid
    /\ UNCHANGED <<registered_receivers, connection_tracker, connected_clients>>

\* C19: a register_receiver from a connection that is not in the connection
\* registry is refused with registration_failed, whatever its credential, and
\* adds neither a receiver nor a connection.
C19_UnknownConnectionRefused ==
    [][\A sid \in Sids \ DOMAIN connection_tracker, key \in ValidAndWrong, name \in Names :
          handle_register_receiver(sid, key, name) => RegistrationRefused(sid)]_vars

\* A connection that the sweep dropped has just been refused a registration
\* that carried a configured key.
C19_Witness ==
    \E sid \in sessions \ DOMAIN connection_tracker : emitted = ConnectionLost(sid)

\* The step adds exactly the entry r for the connection sid and the name, tells
\* sid its id, and the snapshot taken after the step lists it.
RegisteredAs(r, sid, name) ==
    /\ DOMAIN registered_receivers' = DOMAIN registered_receivers \cup {r}
    /\ r \notin DOMAIN registered_receivers
    /\ registered_receivers'[r].name = name
    /\ registered_receivers'[r].active
    /\ registered_receivers'[r].client_id = sid
    /\ \E i \in DOMAIN emitted' :
          emitted'[i] = Event("registration_confirmed", sid, "", r, <<>>)
    /\ \E i \in DOMAIN get_receivers_list' :
          get_receivers_list'[i] = [id |-> r, name |-> name, active |-> TRUE, created_at |-> 0]
    /\ \A old \in DOMAIN registered_receivers :
          registered_receivers'[old] = registered_receivers[old]

\* C20: a register_receiver with a valid credential from a live connection
\* adds exactly one entry under an id that was not in the directory, with the
\* supplied name, active and owned by the registering connection, confirms
\* that id to the connection, and the receiver list snapshot then has the
\* entry; the entries that were there are unchanged.
C20_RegistrationAddsOneEntry ==
    [][\A sid \in DOMAIN connection_tracker, name \in Names :
          handle_register_receiver(sid, <<"k">>, name) =>
              \E r \in DOMAIN registered_receivers' : RegisteredAs(r, sid, name)]_vars

\* A second receiver has just been registered under the name of the first.
C20_Witness ==
    \E r1, r2 \in DOMAIN registered_receivers :
        /\ r1 # r2
        /\ registered_receivers[r1].name = registered_receivers[r2].name
        /\ emitted # <<>>
        /\ emitted[1] = Event("registration_confirmed", registered_receivers[r2].client_id,
                              "", r2, <<>>)

\* The step registers receiver r.
Registers(r) ==
    /\ r \notin DOMAIN registered_receivers
    /\ r \in DOMAIN registered_receivers'

\* C21: a receiver id freshly returned by register_receiver has no backlog and
\* is sent nothing that was published before: the step that registers it
\* leaves no queue under the id and emits no relay_message, and the id was
\* never in use before.
C21_FreshReceiverHasNoBacklog ==
    [][\A r \in DOMAIN registered_receivers' :
          Registers(r) =>
              /\ r \notin DOMAIN message_queue'
              /\ r \notin DOMAIN missed
              /\ \A i \in DOMAIN emitted' : emitted'[i].event # "relay_message"]_vars

\* A receiver has just been registered under the name of an earlier receiver
\* that missed a message while its connection was gone.
C21_Witness ==
    /\ \E old \in DOMAIN missed : missed[old] # <<>>
    /\ emitted # <<>>
    /\ emitted[1].event = "registration_confirmed"
    /\ emitted[1].receiver_id \in DOMAIN registered_receivers
    /\ emitted[1].receiver_id \notin DOMAIN missed

\* The step deletes the entry rid and nothing else of the directory, and the
\* backlog has no entry for rid and the entries it had for the others.
DeletesExactly(rid) ==
    /\ DOMAIN registered_receivers' = DOMAIN registered_receivers \ {rid}
    /\ \A r \in DOMAIN registered_receivers' : registered_receivers'[r] = registered_receivers[r]
    /\ DOMAIN message_queue' = DOMAIN message_queue \ {rid}
    /\ \A r \in DOMAIN message_queue' : message_queue'[r] = message_queue[r]

\* C22: an unregister_receiver with a valid credential and a receiver id in
\* the directory deletes exactly that entry and leaves no backlog for the id;
\* the other entries and backlogs, the connection registry and the generator
\* state are unchanged.
C22_UnregisterDeletesExactlyOne ==
    [][\A sid \in Sids, rid \in DOMAIN registered_receivers :
          handle_unregister_receiver(sid, <<"k">>, rid) =>
              /\ DeletesExactly(rid)
              /\ UNCHANGED <<connection_vars, generator_vars>>]_vars

\* An unregister_receiver has just been confirmed, and another receiver is
\* still in the directory.
C22_Witness ==
    /\ \E i \in DOMAIN emitted : emitted[i].event = "unregistration_confirmed"
    /\ registered_receivers # EmptyMap
    /\ Cardinality(DOMAIN registered_receivers) < next_receiver_id - 1

\* The step sends sid a failure event that names the receiver id as the cause.
NotFoundTo(sid) ==
    \/ emitted' = <<Event("unregistration_failed", sid, "Invalid receiver ID", 0, <<>>)>>
    \/ emitted' = <<StatusEvent("error", "Invalid receiver ID", sid)>>

\* C23: an unregister_receiver or start_sending that names a receiver id that
\* is not in the directory is answered to the caller with a failure event and
\* leaves the directory, the backlog and the generator state, a running loop
\* included, as they were.
C23_UnknownReceiverRefused ==
    [][\A sid \in Sids, rid \in ReceiverIdInputs \ DOMAIN registered_receivers :
          \/ handle_unregister_receiver(sid, <<"k">>, rid)
          \/ \E o \in OverrideInputs : ValidStart(sid, rid, o)
          => /\ NotFoundTo(sid)
             /\ UNCHANGED <<registered_receivers, message_queue, generator_vars>>]_vars

\* A request has just been refused for its receiver id while a loop thread is
\* running.
C23_Witness ==
    /\ is_sending
    /\ send_thread \in threads \ limbo
    /\ emitted # <<>>
    /\ emitted[1].status = "Invalid receiver ID"

RECURSIVE AfterDisconnects(_, _)
\* What handle_disconnect makes of the connection registry and the receiver
\* directory when it handles the disconnect of each of the clients in turn.
AfterDisconnects(st, clients) ==
    IF clients = {} THEN st
    ELSE LET c == CHOOSE c \in clients : TRUE
         IN  AfterDisconnects([tracker |-> TrackerAfterDisconnect(st.tracker, c),
                               clients |-> ClientsAfterDisconnect(st.clients, c),
                               receivers |-> ReceiversAfterDisconnect(st.receivers, c)],
                              clients \ {c})

\* The connections that the step drops from the registry.
Evicted == DOMAIN connection_tracker \ DOMAIN connection_tracker'

\* C24: a sweep that evicts connections leaves connection_tracker,
\* connected_clients, registered_receivers and message_queue as explicit
\* disconnects of those connections would have left them.
C24_SweepSameAsDisconnect ==
    [][check_connections =>
          LET after == AfterDisconnects([tracker |-> connection_tracker,
                                         clients |-> connected_clients,
                                         receivers |-> registered_receivers], Evicted)
          IN  /\ connection_tracker' = after.tracker
              /\ connected_clients' = after.clients
              /\ registered_receivers' = after.receivers
              /\ message_queue' = message_queue]_vars

\* The sweep has just evicted a connection that owned a receiver: the session
\* is open, the connection and the receiver are gone.
C24_Witness ==
    /\ sessions \ DOMAIN connection_tracker # {}
    /\ \E i \in DOMAIN emitted : emitted[i].event = "receiver_list_update"
    /\ \E i \in DOMAIN emitted : emitted[i].event = "client_list_update"
    /\ Cardinality(DOMAIN registered_receivers) < next_receiver_id - 1

\* The step records the current time as the last-seen time of sid.
Touches(sid) ==
    /\ sid \in DOMAIN connection_tracker'
    /\ connection_tracker'[sid].last_ping = clock

\* C25: an inbound event of a connection other than ping, here a
\* register_receiver, refreshes the last-seen time of the connection as a ping
\* does, so that the sweep does not evict a connection that keeps sending.
C25_AnyEventRefreshesLastSeen ==
    [][\A sid \in DOMAIN connection_tracker, key \in ValidAndWrong, name \in Names :
          handle_register_receiver(sid, key, name) => Touches(sid)]_vars

\* The messages that either publisher may publish in the current state.
MessagesNow ==
    {Message(address, value, now) : address \in SendAddresses \cup Range(current_addresses),
                                    value \in SendValues}

\* C26: in every state and for every message, send_value has the fan-out
\* effect of a generator-loop iteration: the same osc_message broadcast and
\* relay_message deliveries, and the same resulting backlog.
C26_SendValueFansOutLikeLoop ==
    \A m \in MessagesNow :
        /\ PublishValueEvents(m) = PublishEvents(m)
        /\ SendValueQueuesAfter(registered_receivers, message_queue, m)
              = QueuesAfter(registered_receivers, message_queue, m)

\* A send_value has just published to a receiver, and the events it emitted
\* are those of a loop iteration with the same message.
C26_Witness ==
    /\ Published
    /\ publisher = 0
    /\ Len(emitted) >= 2
    /\ emitted = PublishEvents(emitted[1].msg[1])

\* The last step confirmed a registration or an unregistration.
DirectoryChangeConfirmed ==
    \E i \in DOMAIN emitted :
        emitted[i].event \in {"registration_confirmed", "unregistration_confirmed"}

\* C28: a step that confirms a register_receiver or an unregister_receiver
\* also broadcasts a receiver_list_update event to all connections.
C28_ListUpdateBroadcast ==
    DirectoryChangeConfirmed =>
        \E i \in DOMAIN emitted :
            emitted[i].event = "receiver_list_update" /\ emitted[i].to = BROADCAST

\* The step is a publish.
Publishes ==
    /\ emitted' # <<>>
    /\ emitted'[1].event = "osc_message"
    /\ now' = now + 1

\* The number of times the publish of the step put its message in the backlog
\* of receiver r.
EnqueuedFor(r) ==
    IF /\ r \in DOMAIN message_queue'
       /\ message_queue'[r] # <<>>
       /\ message_queue'[r][Len(message_queue'[r])] = emitted'[1].msg[1]
    THEN 1 ELSE 0

CarriedKey(query, has_json, json_key) ==
    IF Truthy(query) THEN query
    ELSE IF has_json /\ Truthy(json_key) THEN json_key
    ELSE NoKey

\* C27: GET /api/status and GET /api/receivers answer 200 with their snapshot
\* only to a request that carries an api_key of the configured key set.
C27_SnapshotOnlyWithConfiguredKey ==
    [][\A endpoint \in HttpEndpoints, query \in Credentials, has_json \in BOOLEAN,
          json_key \in Credentials :
          /\ http_get(endpoint, query, has_json, json_key)
          /\ emitted'[1].status = "200"
          => /\ CarriedKey(query, has_json, json_key) # NoKey
             /\ CarriedKey(query, has_json, json_key) \in Range(API_KEYS)]_vars

\* C30: a relay_message published for a receiver is delivered to the connection
\* that owns the receiver and to no other connection, whatever rooms the other
\* connections have joined.
C30_RelayReachesOwnerOnly ==
    \A i \in DOMAIN emitted :
        (emitted[i].event = "relay_message"
            /\ emitted[i].receiver_id \in DOMAIN registered_receivers)
        => Members(RoomOfSid(emitted[i].to))
              = {registered_receivers[emitted[i].receiver_id].client_id}

\* The receivers that a connection owns.
ReceiversOf(client_id) == OwnedBy(registered_receivers, client_id)

\* C31: in every reachable state each connection owns at most one receiver
\* entry, also after the connect handshake of the relay client.
C31_OneReceiverPerConnection ==
    \A client_id \in DOMAIN connection_tracker : Cardinality(ReceiversOf(client_id)) <= 1

\* C32: the receiver list snapshot lists every receiver of the directory once,
\* in registration order, each with its id, name, active flag and a created_at
\* equal to the time recorded for it at registration.
C32_SnapshotReportsDirectory ==
    LET snapshot == get_receivers_list
    IN  /\ {snapshot[i].id : i \in DOMAIN snapshot} = DOMAIN registered_receivers
        /\ \A i, j \in DOMAIN snapshot : i < j => snapshot[i].id < snapshot[j].id
        /\ \A i \in DOMAIN snapshot :
              LET info == registered_receivers[snapshot[i].id]
              IN  /\ snapshot[i].name = info.name
                  /\ snapshot[i].active = info.active
                  /\ snapshot[i].created_at = info.connected_at

\* The last heartbeat of the connection is more than the threshold old.
HeartbeatTooOld(c) ==
    /\ c \in DOMAIN connection_tracker
    /\ clock - connection_tracker[c].last_ping > PING_TIMEOUT

\* C33: one run of the sweep removes the connections whose last heartbeat is
\* more than 30 s old and no other, and leaves the other connections and the
\* receivers they own as they are; a connection whose last heartbeat is more
\* than 30 s old is eventually removed, unless it sends a heartbeat first.
C33_SweepRemovesStaleOnly ==
    /\ [][check_connections =>
            /\ \A c \in DOMAIN connection_tracker :
                  IF HeartbeatTooOld(c)
                  THEN c \notin DOMAIN connection_tracker' /\ c \notin connected_clients'
                  ELSE /\ c \in DOMAIN connection_tracker'
                       /\ connection_tracker'[c] = connection_tracker[c]
                       /\ c \in connected_clients' <=> c \in connected_clients
            /\ \A r \in DOMAIN registered_receivers :
                  ~HeartbeatTooOld(registered_receivers[r].client_id)
                  => /\ r \in DOMAIN registered_receivers'
                     /\ registered_receivers'[r] = registered_receivers[r]]_vars
    /\ \A c \in 1..MaxSessions : HeartbeatTooOld(c) ~> ~HeartbeatTooOld(c)

\* The sweep has just evicted a connection and left another one, whose last
\* heartbeat is exactly the threshold old, with its receiver.
C33_Witness ==
    /\ sessions \ DOMAIN connection_tracker # {}
    /\ Len(emitted) = 2
    /\ emitted[1].event = "client_list_update"
    /\ emitted[2].event = "receiver_list_update"
    /\ \E r \in DOMAIN registered_receivers :
          LET c == registered_receivers[r].client_id
          IN  /\ c \in DOMAIN connection_tracker
              /\ clock - connection_tracker[c].last_ping = PING_TIMEOUT

\* C34: in every reachable state connected_clients is the key set of
\* connection_tracker.
C34_ClientsAreTrackerKeys == connected_clients = DOMAIN connection_tracker

\* A connection has been closed by a disconnect and another one evicted by the
\* sweep, its session still open.
C34_Witness ==
    /\ Sids \ sessions # {}
    /\ sessions \ DOMAIN connection_tracker # {}
    /\ connected_clients = {}

\* C35: in every reachable state the owning connection of every receiver is a
\* key of connection_tracker.
C35_OwnerIsTracked ==
    \A r \in DOMAIN registered_receivers :
        registered_receivers[r].client_id \in DOMAIN connection_tracker

\* A connection has been evicted by the sweep, its session still open, and a
\* receiver of the other connection is in the directory.
C35_Witness ==
    /\ sessions \ DOMAIN connection_tracker # {}
    /\ registered_receivers # EmptyMap

\* C36: in every reachable state every receiver is active and no backlog holds
\* a message.
C36_AlwaysActiveNeverQueued ==
    /\ \A r \in DOMAIN registered_receivers : registered_receivers[r].active
    /\ \A r \in DOMAIN message_queue : message_queue[r] = <<>>

\* A message has just been published while a receiver is registered and after
\* another receiver has been removed.
C36_Witness ==
    /\ emitted # <<>>
    /\ emitted[1].event = "osc_message"
    /\ registered_receivers # EmptyMap
    /\ Cardinality(DOMAIN registered_receivers) < next_receiver_id - 1

\* C37: a start_sending request either leaves the generator Running or leaves
\* destinations, current_addresses, interval_min, interval_max and is_sending
\* as they were.
C37_StartIsAllOrNothing ==
    [][\A sid \in Sids, rid \in ReceiverIdInputs, o \in OverrideInputs \cup BadOverrideInputs :
          handle_start_sending(sid, <<"k">>, rid, o[1], o[2], o[3], o[4])
          => \/ is_sending'
             \/ UNCHANGED <<destinations, current_addresses, interval_min, interval_max,
                            is_sending>>]_vars

\* C38: in every reachable state the address pool of the generator is not
\* empty.
C38_AddressPoolNotEmpty == current_addresses # <<>>

\* The generator runs on an address pool that a start_sending request gave.
C38_Witness ==
    /\ is_sending
    /\ current_addresses = AllOverrides[2][1]

\* C39: no step puts a connection that the sweep has evicted back into
\* connection_tracker or connected_clients, and the disconnect of its session
\* leaves the registry and the receiver directory as they are.
C39_EvictedStaysEvicted ==
    [][\A sid \in EvictedSessions :
          /\ sid \notin DOMAIN connection_tracker'
          /\ sid \notin connected_clients'
          /\ handle_disconnect(sid)
             => UNCHANGED <<connection_tracker, connected_clients, registered_receivers>>]_vars

\* A connection that the sweep has evicted has just been answered a
\* get_status request.
C39_Witness ==
    /\ Len(emitted) = 1
    /\ emitted[1].event = "status_update"
    /\ emitted[1].status = "connected"
    /\ emitted[1].to \in EvictedSessions

\* A connection attempt has failed, or the connection has dropped, and the
\* client is in the sleep that precedes its call of run(): line 245 or 298.
ReconnectPending ==
    /\ relay_client.running
    /\ ~relay_client.was_manually_disconnected
    /\ relay_client.reconnect_attempts <= max_reconnect_attempts
    /\ \/ \E th \in RelayThreads : At(th, "sleep")
       \/ At("events", "disconnect_sleep")

\* A thread is at self.sio.connect(...), line 230.
ConnectAttempted == \E th \in RelayThreads : At(th, "connect")

\* C40: when a connection attempt of run() has failed, or the connection has
\* dropped, while the client is running, was not manually disconnected and has
\* reconnect attempts left, the client eventually calls connect again, unless
\* it is stopped first.
C40_ReconnectIsAttempted ==
    ReconnectPending
        ~> (ConnectAttempted \/ ~relay_client.running \/ relay_client.was_manually_disconnected)

====
